---- MODULE Spec2Model ----
(***************************************************************************)
(* A model of espflashtool's transport and protocol engine: the            *)
(* send-command / read-response loop, the connect / sync handshake and     *)
(* the reset sequence, as implemented three times in the repository:       *)
(*   Protocol   (src/src/protocol.rs)                                      *)
(*   Flasher    (src/src/flasher.rs)                                       *)
(*   Connection (src/src/lib.rs, the legacy engine)                        *)
(* The engine is single threaded; its control state is a program counter   *)
(* and a stack of return labels.  The target on the other end of the       *)
(* serial line is the environment: every read is answered by one of the    *)
(* outcomes the line can produce (a frame, a line of text, a timeout, a    *)
(* transport error).  Time is counted in milliseconds.                     *)
(***************************************************************************)
EXTENDS Integers, Sequences, FiniteSets, TLC

VARIABLES
    impl,           \* which engine this session runs
    pc,             \* control location of the engine
    stack,          \* return labels of the calls in progress
    top,            \* the public operation in progress ("none" when idle)
    is_rom_loader,  \* peer-mode flag: TRUE = ROM loader, FALSE = stub
    status_size,    \* Flasher: cached status-trailer width (0 = unknown)
    cmd,            \* the command being sent
    cmd_code,       \* opcode of the outstanding command
    timeout,        \* deadline of the outstanding command (ms)
    elapsed,        \* start_time.elapsed() inside read_response (ms)
    round,          \* connect: rounds started
    lineNo,         \* connect: line reads started in this round
    waiting,        \* connect: local `waiting`
    syncNo,         \* connect: sync attempts started
    drainNo,        \* sync: drain reads started
    arg,            \* argument of the operation in progress
    result,         \* the Result the last call returned
    chip,           \* Flasher: the recorded chip ("None" before set_chip)
    attached,       \* Flasher: the attached flag
    spi,            \* Flasher: the locals of spi_command while it runs
    fields,         \* arguments of the operation whose command is being sent
    payload,        \* data payload of that command
    packet,         \* the command packet encoded last
    response,       \* codec: a response frame as written
    parsed,         \* codec: what reading that frame gave
    serial,         \* the local serial port: its baud rate, and the calls the
                    \* operation in progress has made on it
    bus,            \* the observer lists of the engine and of its port, and,
                    \* while observers are registered, the kinds of event
                    \* emitted and the notifications made (observer, kind)
                    \* since the public call began
    \* ---- history (ghost) variables, read only by the properties ----
    written,        \* command frames written since the public call began
    syncOk,         \* a Sync response with status 0 was accepted in this connect
    lastRead        \* what the line delivered to the last frame read

vars == <<impl, pc, stack, top, is_rom_loader, status_size,
          cmd, cmd_code, timeout, elapsed, round, lineNo, waiting,
          syncNo, drainNo, arg, result, chip, attached, spi, fields, payload,
          packet, response, parsed, serial, bus, written, syncOk, lastRead>>

----------------------------------------------------------------------------
(* Program constants *)

DEFAULT_TIMEOUT == 3000
SYNC_TIMEOUT == 100
LEGACY_SYNC_TIMEOUT == 10
DEFAULT_SERIAL_TIMEOUT == 10
CHIP_MAGIC_REG == 1073745920
CONNECT_ROUNDS == 10
CONNECT_LINES == 10
CONNECT_SYNCS == 10
SYNC_DRAIN == 100

(* Bounds of the model *)

\* The longest data payload of a command the codec is given.
MaxPayload == 2

\* The longest response data the codec is given.
MaxData == 4

\* How many times spi_command finds the SPI controller still busy.
MaxPolls == 2

\* How many floor-length reads past the command deadline the target may still
\* answer before the line falls silent.
MaxLate == 1

Impls == {"Protocol", "Flasher", "Connection"}

----------------------------------------------------------------------------
(* Opcodes: Command::code *)

FlashBegin == 2
FlashData == 3
FlashEnd == 4
MemBegin == 5
MemEnd == 6
MemData == 7
Sync == 8
WriteReg == 9
ReadReg == 10
SpiSetParams == 11
SpiAttach == 13
ChangeBaudRate == 15
FlashDeflBegin == 16
FlashDeflData == 17
FlashDeflEnd == 18
SpiFlashMD5 == 19
EraseFlash == 208
EraseRegion == 209
ReadFlash == 210
RunUserCode == 211

code(c) ==
    CASE c = "FlashBegin" -> FlashBegin
      [] c = "FlashData" -> FlashData
      [] c = "FlashEnd" -> FlashEnd
      [] c = "MemBegin" -> MemBegin
      [] c = "MemEnd" -> MemEnd
      [] c = "MemData" -> MemData
      [] c = "Sync" -> Sync
      [] c = "WriteReg" -> WriteReg
      [] c = "ReadReg" -> ReadReg
      [] c = "SpiSetParams" -> SpiSetParams
      [] c = "SpiAttach" -> SpiAttach
      [] c = "ChangeBaudRate" -> ChangeBaudRate
      [] c = "FlashDeflBegin" -> FlashDeflBegin
      [] c = "FlashDeflData" -> FlashDeflData
      [] c = "FlashDeflEnd" -> FlashDeflEnd
      [] c = "SpiFlashMD5" -> SpiFlashMD5
      [] c = "EraseFlash" -> EraseFlash
      [] c = "EraseRegion" -> EraseRegion
      [] c = "ReadFlash" -> ReadFlash
      [] c = "RunUserCode" -> RunUserCode

\* Command::timeout.  The legacy engine has its own SYNC_TIMEOUT.
CommandTimeout(i, c) ==
    IF c = "Sync"
    THEN (IF i = "Connection" THEN LEGACY_SYNC_TIMEOUT ELSE SYNC_TIMEOUT)
    ELSE DEFAULT_TIMEOUT

----------------------------------------------------------------------------
(* Results.  kind is "ok" or the kind of the error. *)

Res(kind, value, data, err, frame) ==
    [kind |-> kind, value |-> value, data |-> data, err |-> err, frame |-> frame]

Ok == Res("ok", 0, <<>>, "", <<>>)
OkValue(value, data, frame) == Res("ok", value, data, "", frame)
ErrTimeout == Res("timeout", 0, <<>>, "", <<>>)
ErrIo == Res("io", 0, <<>>, "", <<>>)
ErrCommand(err, frame) == Res("command", 0, <<>>, err, frame)
ErrMustSetChipFirst == Res("must_set_chip_first", 0, <<>>, "", <<>>)
ErrInvalidSpiCommand == Res("invalid_spi_command", 0, <<>>, "", <<>>)
ErrUnknownDevice(magic) == Res("unknown_device", magic, <<>>, "", <<>>)

\* ErrorExt::is_timeout / is_timeout: the error is an io::Error of kind TimedOut.
is_timeout(r) == r.kind = "timeout"

is_err(r) == r.kind # "ok"

\* impl From<u8> for CommandError (command.rs)
CommandErrorFrom(b) ==
    CASE b = 5 -> "ReceivedMessageInvalid"
      [] b = 6 -> "FailedToActOnMessage"
      [] b = 7 -> "InvalidCrc"
      [] b = 8 -> "FlashWriteError"
      [] b = 9 -> "FlashReadError"
      [] b = 10 -> "FlashReadLengthError"
      [] b = 11 -> "DeflateError"
      [] b = 192 -> "BadDataLen"
      [] b = 193 -> "BadDataChecksum"
      [] b = 194 -> "BadBlocksize"
      [] b = 195 -> "InvalidCommand"
      [] b = 196 -> "FailedSpiOp"
      [] b = 197 -> "FailedSpiUnlock"
      [] b = 198 -> "NotInFlashMode"
      [] b = 199 -> "InflateError"
      [] b = 200 -> "NotEnoughData"
      [] b = 201 -> "TooMuchData"
      [] b = 255 -> "CommandNotImplemented"
      [] OTHER -> "UnknownErrorCode"

\* impl From<u8> for CommandError (lib.rs, the legacy engine)
LegacyCommandErrorFrom(b) ==
    CASE b = 5 -> "ReceivedMessageInvalid"
      [] b = 6 -> "FailedToActOnMessage"
      [] b = 7 -> "InvalidCrc"
      [] b = 8 -> "FlashWriteError"
      [] b = 9 -> "FlashReadError"
      [] b = 10 -> "FlashReadLengthError"
      [] b = 11 -> "DeflateError"
      [] OTHER -> "InvalidResponse"

----------------------------------------------------------------------------
(* Byte helpers.  A u32 is held as the integer that has the same 32 bits in  *)
(* two's complement, so that 0x80000000 and above are the negative numbers: *)
(* 0xFFFFFFFF is -1.                                                        *)

from_le16(s, at) == s[at] + 256 * s[at + 1]

from_le32(s, at) ==
    s[at] + 256 * s[at + 1] + 65536 * s[at + 2]
        + 16777216 * (IF s[at + 3] >= 128 THEN s[at + 3] - 256 ELSE s[at + 3])

to_le32(v) ==
    <<v % 256, (v \div 256) % 256, (v \div 65536) % 256, (v \div 16777216) % 256>>

Slice(s, from, to) == [i \in 1..(to - from + 1) |-> s[from + i - 1]]

Max(a, b) == IF a >= b THEN a ELSE b

\* Duration::saturating_sub
saturating_sub(a, b) == IF a >= b THEN a - b ELSE 0

----------------------------------------------------------------------------
(* Response frames: the layout of ResponsePacket (command.rs), as the target *)
(* writes it.  trailer is the width of the status trailer, 2 or 4.           *)

MkResponse(c, value, data, status, error, trailer) ==
    <<1, c, (Len(data) + trailer) % 256, (Len(data) + trailer) \div 256>>
        \o to_le32(value) \o data \o <<status, error>>
        \o (IF trailer = 4 THEN <<0, 0>> ELSE <<>>)

\* status_size (command.rs): the trailer width guessed from the length field.
StatusSizeOf(data_len) ==
    CASE data_len = 2 -> 2
      [] data_len = 4 -> 4
      [] data_len = 18 -> 2
      [] data_len = 36 -> 4
      [] OTHER -> 2

NoPacket ==
    [ok |-> FALSE, cmd_code |-> 0, value |-> 0, data |-> <<>>, status |-> 0,
     error |-> 0]

\* ResponsePacket::read (binrw): magic 0x01, cmd_code, data_size (asserted >= 2),
\* value, data_size - status_size bytes of data, status, error, and two
\* reserved bytes when the status is four bytes wide.  Reading past the end of
\* the frame fails; bytes after the packet are ignored.
ResponsePacketRead(f) ==
    IF Len(f) < 4 \/ f[1] # 1 THEN NoPacket
    ELSE LET data_size == from_le16(f, 3)
             ss == StatusSizeOf(data_size)
             n == saturating_sub(data_size, ss)
         IN IF data_size < 2 \/ Len(f) < 8 + n + ss THEN NoPacket
            ELSE [ok |-> TRUE, cmd_code |-> f[2], value |-> from_le32(f, 5),
                  data |-> Slice(f, 9, 8 + n), status |-> f[9 + n],
                  error |-> f[10 + n]]

\* The match on the status byte in read_response.
\* Classify with every nonzero status taken for a command failure.
ClassifyNonZeroFails(status, error, value, data, f) ==
    CASE status = 0 -> OkValue(value, data, f)
      [] OTHER -> ErrCommand(CommandErrorFrom(error), f)

Classify(status, error, value, data, f) ==
    CASE status = 0 -> OkValue(value, data, f)
      [] status = 1 -> ErrCommand(CommandErrorFrom(error), f)
      [] OTHER -> ErrCommand("InvalidResponse", f)

LegacyClassify(status, error, value, data, f) ==
    CASE status = 0 -> OkValue(value, data, f)
      [] status = 1 -> ErrCommand(LegacyCommandErrorFrom(error), f)
      [] OTHER -> ErrCommand("InvalidResponse", f)

\* What one iteration of the read_response loop does with a frame:
\* ret = the loop returns res; otherwise the frame is dropped.  ss is the
\* cached status width afterwards.
Verdict(ret, res, ss) == [ret |-> ret, res |-> res, ss |-> ss]

\* ProtocolProcess without the comparison of the opcode echo.
ProtocolProcessAnyEcho(f, sent) ==
    LET p == ResponsePacketRead(f)
    IN IF p.ok
       THEN Verdict(TRUE, Classify(p.status, p.error, p.value, p.data, f), 0)
       ELSE Verdict(FALSE, Ok, 0)

\* Protocol::read_response, the body of the loop after read_packet.
ProtocolProcess(f, sent) ==
    LET p == ResponsePacketRead(f)
    IN IF p.ok /\ p.cmd_code = sent
       THEN Verdict(TRUE, Classify(p.status, p.error, p.value, p.data, f), 0)
       ELSE Verdict(FALSE, Ok, 0)

\* usize::MAX, which response_data_len_from_code returns for "unknown"; the
\* engine only compares it for equality, so the largest integer the model
\* checker has stands for it.
USIZE_MAX == 2147483647

\* Command::response_data_len_from_code: the expected length of the response
\* data, usize::MAX for an opcode it does not know.
response_data_len_from_code(c, rom_loader) ==
    IF c = SpiFlashMD5 THEN (IF rom_loader THEN 32 ELSE 16)
    ELSE IF c \in {FlashBegin, FlashData, FlashEnd, MemBegin, MemEnd, MemData,
                   Sync, WriteReg, ReadReg, SpiSetParams, SpiAttach,
                   ChangeBaudRate, FlashDeflBegin, FlashDeflData, FlashDeflEnd,
                   EraseFlash, EraseRegion, ReadFlash, RunUserCode}
    THEN 0 ELSE USIZE_MAX

\* The size check without the comparison of the length field with the
\* expected data length and the status width.
FlasherInvalidAnyLength(f, expected, ss) ==
    \/ Len(f) < 10
    \/ f[1] # 1
    \/ from_le16(f, 3) + 8 # Len(f)

\* Flasher::read_response: the size check that precedes InvalidResponse.
FlasherInvalid(f, expected, ss) ==
    \/ Len(f) < 10
    \/ f[1] # 1
    \/ LET size == from_le16(f, 3)
       IN \/ size + 8 # Len(f)
          \/ CASE expected = USIZE_MAX /\ ss = 0 -> FALSE
                [] expected = USIZE_MAX /\ ss # 0 -> size < ss
                [] expected # USIZE_MAX /\ ss = 0 ->
                       size # expected + 2 /\ size # expected + 4
                [] OTHER -> size # expected + ss

\* Flasher::read_response, the body of the loop after read_packet.
FlasherProcess(f, sent, rom_loader, ss) ==
    LET expected == response_data_len_from_code(sent, rom_loader)
    IN IF FlasherInvalid(f, expected, ss) THEN Verdict(FALSE, Ok, ss)
       ELSE IF ss = 0 /\ expected = USIZE_MAX
       THEN Verdict(TRUE, ErrMustSetChipFirst, ss)
       ELSE LET size == from_le16(f, 3)
                ss2 == IF ss = 0 THEN saturating_sub(size, expected) ELSE ss
                status == f[Len(f) - ss2 + 1]
                err == f[Len(f) - ss2 + 2]
                value == from_le32(f, 5)
                data == Slice(f, 9, Len(f) - ss2)
            IN IF f[2] = sent
               THEN Verdict(TRUE, Classify(status, err, value, data, f), ss2)
               ELSE Verdict(FALSE, Ok, ss2)

\* Connection::read_response: the discard test and the status match.
ConnectionProcess(f, sent, rom_loader) ==
    LET ss == IF rom_loader THEN 4 ELSE 2
    IN IF \/ Len(f) < 10
          \/ f[1] # 1
          \/ f[2] # sent
          \/ from_le16(f, 3) + 8 > Len(f)
          \/ from_le16(f, 3) < ss
       THEN Verdict(FALSE, Ok, 0)
       ELSE Verdict(TRUE,
                    LegacyClassify(f[Len(f) - ss + 1], f[Len(f) - ss + 2],
                                   from_le32(f, 5), Slice(f, 9, Len(f) - ss), f),
                    0)

Process(i, f, sent, rom_loader, ss) ==
    CASE i = "Protocol" -> ProtocolProcess(f, sent)
      [] i = "Flasher" -> FlasherProcess(f, sent, rom_loader, ss)
      [] OTHER -> ConnectionProcess(f, sent, rom_loader)

----------------------------------------------------------------------------
(* Command packets *)

Commands ==
    {"FlashBegin", "FlashData", "FlashEnd", "MemBegin", "MemEnd", "MemData",
     "Sync", "WriteReg", "ReadReg", "SpiSetParams", "SpiAttach",
     "ChangeBaudRate", "FlashDeflBegin", "FlashDeflData", "FlashDeflEnd",
     "SpiFlashMD5", "EraseFlash", "EraseRegion", "ReadFlash", "RunUserCode"}

\* The commands that carry a data payload.
DataCommands == {"FlashData", "MemData", "FlashDeflData"}

RECURSIVE Words(_)
\* add_words: each u32 as four little-endian bytes.
Words(ws) == IF ws = <<>> THEN <<>> ELSE to_le32(Head(ws)) \o Words(Tail(ws))

Zeros(n) == [i \in 1..n |-> 0]

\* a ^ b on bytes
Xor(a, b) ==
    LET bit(x, i) == (x \div (2 ^ i)) % 2
        k(i) == (2 ^ i) * ((bit(a, i) + bit(b, i)) % 2)
    IN k(0) + k(1) + k(2) + k(3) + k(4) + k(5) + k(6) + k(7)

RECURSIVE XorAll(_, _)
\* `for x in data { checksum ^= *x; }`
XorAll(seed, data) ==
    IF data = <<>> THEN seed ELSE XorAll(Xor(seed, Head(data)), Tail(data))

\* The body Sync is sent with.
SyncBody == <<7, 7, 18, 32>> \o [i \in 1..32 |-> 85]

\* The Command value with the end flags as the caller gave them.
ProtocolCommandFlagsAsGiven(c, a, data, rom_loader, old_rate) ==
    CASE c \in DataCommands -> <<Len(data), a[1]>>
      [] c \in {"FlashEnd", "FlashDeflEnd"} -> <<IF a[1] THEN 1 ELSE 0>>
      [] c = "MemEnd" -> <<IF a[1] THEN 1 ELSE 0, a[2]>>
      [] c = "WriteReg" -> <<a[1], a[2], -1, 0>>
      [] c = "SpiSetParams" -> <<0, a[1], 65536, 4096, 256, 65535>>
      [] c = "SpiAttach" -> <<0, 0>>
      [] c = "ChangeBaudRate" -> <<a[1], IF rom_loader THEN 0 ELSE old_rate>>
      [] OTHER -> a

\* The Command value a Protocol operation builds from its arguments a and its
\* data; old_rate is what serial().baud_rate() gave.
ProtocolCommand(c, a, data, rom_loader, old_rate) ==
    CASE c \in DataCommands -> <<Len(data), a[1]>>
      [] c \in {"FlashEnd", "FlashDeflEnd"} -> <<IF a[1] THEN 0 ELSE 1>>
      [] c = "MemEnd" -> <<IF a[1] THEN 0 ELSE 1, a[2]>>
      [] c = "WriteReg" -> <<a[1], a[2], -1, 0>>
      [] c = "SpiSetParams" -> <<0, a[1], 65536, 4096, 256, 65535>>
      [] c = "SpiAttach" -> <<0, 0>>
      [] c = "ChangeBaudRate" -> <<a[1], IF rom_loader THEN 0 ELSE old_rate>>
      [] OTHER -> a

\* The Command value a Flasher operation builds from its arguments.
FlasherCommand(c, a) == IF c = "SpiAttach" THEN <<0>> ELSE a

CommandOf(i, c, a, data, rom_loader, old_rate) ==
    IF i = "Protocol" THEN ProtocolCommand(c, a, data, rom_loader, old_rate)
    ELSE FlasherCommand(c, a)

\* Command::write_with_args(rom_loader) (binrw, command.rs): the fields w of
\* the variant in the order of their declaration.
CommandWrite(c, w, rom_loader) ==
    CASE c \in DataCommands -> Words(<<w[1], w[2]>>) \o Zeros(8)
      [] c = "Sync" -> SyncBody
      [] c = "SpiAttach" ->
             Words(<<w[1]>>) \o (IF rom_loader THEN Words(<<w[2]>>) ELSE <<>>)
      [] c = "SpiFlashMD5" -> Words(<<w[1], w[2]>>) \o Zeros(8)
      [] c \in {"EraseFlash", "RunUserCode"} -> <<>>
      [] OTHER -> Words(w)

\* Header with the length field counting the header as well.
HeaderCountsItself(c, len, checksum) ==
    <<0, code(c), (len + 8) % 256, ((len + 8) \div 256) % 256, checksum, 0, 0, 0>>

\* The header with the length and checksum fields filled in.
Header(c, len, checksum) ==
    <<0, code(c), len % 256, (len \div 256) % 256, checksum, 0, 0, 0>>

\* Protocol::send_command_with_data: the packet handed to send_packet.
ProtocolEncode(c, w, data, rom_loader) ==
    LET checksum == XorAll(239, data)
        body == CommandWrite(c, w, rom_loader) \o data
    IN Header(c, Len(body), checksum) \o body

\* Flasher::send_command_with_data: the match on the command.
FlasherBody(c, w, data, rom_loader, old_rate) ==
    CASE c \in {"FlashBegin", "MemBegin", "FlashDeflBegin"} ->
             Words(<<w[1], w[2], w[3], w[4]>>)
      [] c \in DataCommands -> Words(<<Len(data), w[1], 0, 0>>) \o data
      [] c \in {"FlashEnd", "FlashDeflEnd"} -> Words(<<IF w[1] THEN 0 ELSE 1>>)
      [] c = "MemEnd" -> Words(<<IF w[1] THEN 0 ELSE 1, w[2]>>)
      [] c = "Sync" -> <<7, 7, 18, 32>> \o [i \in 1..32 |-> 85]
      [] c = "WriteReg" -> Words(<<w[1], w[2], w[3], w[4]>>)
      [] c = "ReadReg" -> Words(<<w[1]>>)
      [] c = "SpiSetParams" -> Words(<<0, w[1], 65536, 4096, 256, 65535>>)
      [] c = "SpiAttach" ->
             IF rom_loader THEN Words(<<w[1], 0>>) ELSE Words(<<w[1]>>)
      [] c = "ChangeBaudRate" ->
             Words(<<w[1], IF rom_loader THEN 0 ELSE old_rate>>)
      [] c = "SpiFlashMD5" -> Words(<<w[1], w[2], 0, 0>>)
      [] c = "EraseRegion" -> Words(<<w[1], w[2]>>)
      [] c = "ReadFlash" -> Words(<<w[1], w[2], w[3], w[4]>>)
      [] OTHER -> <<>>

\* FlasherEncode with the checksum computed for every command.
FlasherEncodeChecksumAlways(c, w, data, rom_loader, old_rate) ==
    LET checksum == XorAll(239, data)
        body == FlasherBody(c, w, data, rom_loader, old_rate)
    IN Header(c, Len(body), checksum) \o body

\* Flasher::send_command_with_data: the packet handed to send_packet.
FlasherEncode(c, w, data, rom_loader, old_rate) ==
    LET checksum == IF c \in DataCommands THEN XorAll(239, data) ELSE 0
        body == FlasherBody(c, w, data, rom_loader, old_rate)
    IN Header(c, Len(body), checksum) \o body

\* Connection::send: Sync and ReadReg, the checksum always 0.
ConnectionEncode(c, w) ==
    LET body == IF c = "Sync" THEN <<7, 7, 18, 32>> \o [i \in 1..32 |-> 85]
                ELSE to_le32(w[1])
    IN Header(c, Len(body), 0) \o body

\* The commands an engine encodes.
EncodedBy(i) == IF i = "Connection" THEN {"Sync", "ReadReg"} ELSE Commands

Encode(i, c, w, data, rom_loader, old_rate) ==
    CASE i = "Protocol" -> ProtocolEncode(c, w, data, rom_loader)
      [] i = "Flasher" -> FlasherEncode(c, w, data, rom_loader, old_rate)
      [] OTHER -> ConnectionEncode(c, w)

\* ResponsePacket::write (binrw): magic 0x01, cmd_code, data_size calculated
\* from the data and the presence of the reserved bytes, value, data, status,
\* error, reserved.
ResponsePacketWrite(c, value, data, status, error, reserved) ==
    LET data_size == Len(data) + (IF reserved = <<>> THEN 2 ELSE 4)
    IN <<1, c, data_size % 256, (data_size \div 256) % 256>>
           \o to_le32(value) \o data \o <<status, error>> \o reserved

----------------------------------------------------------------------------
(* The chip table (chip.rs) *)

\* The u32 with these bytes, the most significant first.
U32(b3, b2, b1, b0) == from_le32(<<b0, b1, b2, b3>>, 1)

Chips == {"Esp8266", "Esp32", "Esp32S2", "Esp32S3", "Esp32C3"}

\* try_from_magic with one magic for the ESP32-C3 only.
try_from_magic_one_c3(magic) ==
    CASE magic = U32(255, 240, 193, 1) -> "Esp8266"
      [] magic = U32(0, 240, 29, 131) -> "Esp32"
      [] magic = U32(0, 0, 7, 198) -> "Esp32S2"
      [] magic = U32(105, 33, 80, 111) -> "Esp32C3"
      [] magic = U32(0, 0, 0, 9) -> "Esp32S3"
      [] OTHER -> "None"

\* Chip::try_from_magic; "None" for a magic that is not in the table.
try_from_magic(magic) ==
    CASE magic = U32(255, 240, 193, 1) -> "Esp8266"
      [] magic = U32(0, 240, 29, 131) -> "Esp32"
      [] magic = U32(0, 0, 7, 198) -> "Esp32S2"
      [] magic \in {U32(105, 33, 80, 111), U32(27, 49, 80, 111)} -> "Esp32C3"
      [] magic = U32(0, 0, 0, 9) -> "Esp32S3"
      [] OTHER -> "None"

SpiRegs(cmd_reg, addr, user, user1, user2, mosi_dlen, miso_dlen, w0) ==
    [cmd |-> cmd_reg, addr |-> addr, user |-> user, user1 |-> user1,
     user2 |-> user2, mosi_dlen |-> mosi_dlen, miso_dlen |-> miso_dlen, w0 |-> w0]

\* Chip::spi_regs
spi_regs(c) ==
    CASE c = "Esp8266" ->
             SpiRegs(U32(96, 0, 2, 0), U32(96, 0, 2, 4), U32(96, 0, 2, 28),
                     U32(96, 0, 2, 32), U32(96, 0, 2, 36), 0, 0, U32(96, 0, 2, 64))
      [] c = "Esp32" ->
             SpiRegs(U32(63, 244, 32, 0), U32(63, 244, 32, 4), U32(63, 244, 32, 28),
                     U32(63, 244, 32, 32), U32(63, 244, 32, 36), U32(63, 244, 32, 40),
                     U32(63, 244, 32, 44), U32(63, 244, 32, 128))
      [] c = "Esp32S2" ->
             SpiRegs(U32(63, 64, 32, 0), U32(63, 64, 32, 4), U32(63, 64, 32, 24),
                     U32(63, 64, 32, 28), U32(63, 64, 32, 32), U32(63, 64, 32, 36),
                     U32(63, 64, 32, 40), U32(63, 64, 32, 88))
      [] c \in {"Esp32S3", "Esp32C3"} ->
             SpiRegs(U32(96, 0, 32, 0), U32(96, 0, 32, 4), U32(96, 0, 32, 24),
                     U32(96, 0, 32, 28), U32(96, 0, 32, 32), U32(96, 0, 32, 36),
                     U32(96, 0, 32, 40), U32(96, 0, 32, 88))

\* SpiRegs::w
RegW(regs, index) == regs.w0 + index * 4

\* The values the chip's magic register can hold.
TargetMagics ==
    {U32(255, 240, 193, 1), U32(0, 240, 29, 131), U32(0, 0, 7, 198),
     U32(105, 33, 80, 111), U32(27, 49, 80, 111), U32(0, 0, 0, 9)}

----------------------------------------------------------------------------
(* The target: what the serial line can deliver to a read *)

Values == {0, 305419896}
ErrBytes == {5, 66}
Trailers == {2, 4}

OtherCode(c) == IF c = Sync THEN ReadReg ELSE Sync

\* A digest as the stub sends it (16 raw bytes) and as the ROM loader sends it
\* (32 lower-case hex digits).
Md5Raw == [i \in 1..16 |-> (i * 17) % 256]

HexChar(n) == IF n < 10 THEN 48 + n ELSE 87 + n

Md5Hex ==
    [i \in 1..32 |->
        HexChar(IF i % 2 = 1 THEN Md5Raw[(i + 1) \div 2] \div 16
                ELSE Md5Raw[i \div 2] % 16)]

\* The value words of the target's answers: a register may also hold a chip
\* magic.
ReplyValues(c) == IF c = ReadReg THEN Values \cup TargetMagics ELSE Values

\* Responses that echo the outstanding opcode.
Replies(c) ==
    {MkResponse(c, v, <<>>, 0, 0, t) : v \in ReplyValues(c), t \in Trailers}
        \cup {MkResponse(c, 0, <<>>, 1, e, t) : e \in ErrBytes, t \in Trailers}
        \cup {MkResponse(c, 0, <<>>, 2, 0, t) : t \in Trailers}
        \cup (IF c = SpiFlashMD5
              THEN {MkResponse(c, 0, Md5Hex, 0, 0, 4), MkResponse(c, 0, Md5Raw, 0, 0, 2)}
              ELSE {})

\* Well-formed responses that echo another opcode.
Chatter(c) ==
    {MkResponse(OtherCode(c), 0, <<>>, st, 5, t) : st \in {0, 1}, t \in Trailers}

\* Frames that are no response: a command echoed back (direction 0), a
\* truncated header, a length field below the status width.
Garbage(c) ==
    {<<0, c, 2, 0, 0, 0, 0, 0, 0, 0>>, <<1, c, 2, 0>>,
     <<1, c, 1, 0, 0, 0, 0, 0, 0>>}

\* The frames the line can deliver while the opcode byte c is outstanding,
\* as a table by opcode.
FramesOf == [c \in 0..255 |-> Replies(c) \cup Chatter(c) \cup Garbage(c)]

TargetFrames(c) == FramesOf[c]

KindOf ==
    [c \in 0..255 |->
        [f \in FramesOf[c] |->
            IF f \in Replies(c) THEN "reply"
            ELSE IF f \in Chatter(c) THEN "chatter" ELSE "garbage"]]

FrameKind(f, c) == KindOf[c][f]

Banner == "waiting for download\r\n"
TargetLines == {Banner, "ets Jun  8 2016 00:22:57\r\n", "waiting for download\n"}

Rates == {115200, 921600}

----------------------------------------------------------------------------
(* Control: calls and returns *)

Call(target, ret) ==
    /\ pc' = target
    /\ stack' = <<ret>> \o stack

Return(r) ==
    /\ result' = r
    /\ pc' = Head(stack)
    /\ stack' = Tail(stack)

\* The serial read's deadline: TimeoutSerialPort::read and Flasher::fill_buffer
\* use max(DEFAULT_SERIAL_TIMEOUT, remaining); Connection::fill_buffer uses
\* the remaining time as it is.
ReadWait(i, remaining) ==
    IF i = "Connection" THEN remaining ELSE Max(DEFAULT_SERIAL_TIMEOUT, remaining)

\* When the bytes of a frame arrive within a read that waits w: at once, or at
\* the last moment (a read that does not wait still takes a millisecond).
Delays(w) == {0, Max(w, 1)}

\* No spi_command is running.
NoSpi == [running |-> FALSE]

\* The rate the local port runs at, where the code asks for it.
PortRates(asked) == IF asked THEN Rates ELSE {0}

\* The observers a session can be given.
Observers == {"o1", "o2"}

\* Protocol::new: the TimeoutSerialPort gets a clone of one EventProvider,
\* which shares its list, and the Protocol a second EventProvider::new() with
\* a list of its own.  Both lists start empty.
\* The provider on its own keeps more: the observer send_event is about to
\* notify (at, 0 while no send_event holds the list borrowed), the number of
\* events sent, what each observer's collector has stored (seen) and the
\* events sent while it was registered (due), the outcome of collect, and the
\* panic that ended the program, if any.
NoCollect == [observer |-> "none", events |-> <<>>, due |-> <<>>]
NewBus ==
    [engine |-> <<>>, port |-> <<>>, emitted |-> {}, notified |-> {},
     at |-> 0, sent |-> 0, seen |-> [o \in Observers |-> <<>>],
     due |-> [o \in Observers |-> <<>>], collected |-> NoCollect,
     fault |-> "none"]

\* An event, emitted by the engine's trace or by the port.
Event(src, kind) == [src |-> src, kind |-> kind]

\* The list an event is sent to.  In Protocol the port sends to the list of
\* its own provider; in Flasher fill_buffer sends SerialRead with trace_only,
\* to the same self.observers as trace.
ObserversOf(i, b, src) == IF i = "Protocol" /\ src = "port" THEN b.port ELSE b.engine

\* send_event / trace for each event of evs: every observer of the event's
\* list is notified of it.
Deliveries(i, b, evs) ==
    UNION {{<<ObserversOf(i, b, evs[n].src)[k], evs[n].kind>> :
               k \in 1..Len(ObserversOf(i, b, evs[n].src))} : n \in 1..Len(evs)}

\* The bus after the events evs; nothing is kept while no observer is
\* registered, nor for the legacy Connection, whose observers are not
\* modelled.
Emit(i, b, evs) ==
    IF i = "Connection" \/ (b.engine = <<>> /\ b.port = <<>>)
    THEN b
    ELSE [b EXCEPT !.emitted = @ \cup {evs[k].kind : k \in 1..Len(evs)},
                   !.notified = @ \cup Deliveries(i, b, evs)]

\* What reading the frame f emits: SerialRead from the port, SlipRead from
\* read_packet, then Response or InvalidResponse from read_response (the
\* Flasher returns MustSetChipFirst before it traces).
FrameEvents(i, f, sent, rom_loader, ss) ==
    <<Event("port", "SerialRead"), Event("engine", "SlipRead")>>
        \o (IF i = "Flasher"
            THEN LET expected == response_data_len_from_code(sent, rom_loader)
                 IN IF FlasherInvalid(f, expected, ss)
                    THEN <<Event("engine", "InvalidResponse")>>
                    ELSE IF ss = 0 /\ expected = USIZE_MAX THEN <<>>
                    ELSE <<Event("engine", "Response")>>
            ELSE IF ResponsePacketRead(f).ok
                 THEN <<Event("engine", "Response")>>
                 ELSE <<Event("engine", "InvalidResponse")>>)

\* The rate the port is opened at.
OPEN_BAUD_RATE == 115200

\* The serial port as opened.
\* The line behind it carries, besides what the target says, the opcodes
\* of the commands that timed out and that the target still answers (owed,
\* on a line with late replies), and whether the response accepted last
\* was such a late answer (stale).
NewSerial ==
    [baud_rate |-> OPEN_BAUD_RATE, calls |-> <<>>, write_stalls |-> FALSE,
     late_replies |-> FALSE, owed |-> {}, stale |-> FALSE]

\* The same port on a line whose target can answer a command after the
\* command's deadline.
LateSerial == [NewSerial EXCEPT !.late_replies = TRUE]

\* The late answers kept track of, at most.
MaxOwed == 1

\* The same port on a line that can stall a write past the write timeout
\* send_packet sets, so that write_all fails with kind TimedOut.
StallingSerial == [NewSerial EXCEPT !.write_stalls = TRUE]

\* A call made on the port, or a step taken between two of them.
PortCall(op, v) == [op |-> op, v |-> v]

\* The calls that return a Result and are followed by `?`.
Fallible(c) ==
    c.op \in {"clear", "rts", "dtr", "flush", "set_baud_rate", "bytes_to_read"}

\* The calls of an operation are made in their order; the first that fails
\* ends the operation with its error.  The port keeps the calls that were
\* made and the last rate that was set.
RunCalls(calls) ==
    \E n \in 0..Len(calls) :
        /\ IF n = Len(calls)
           THEN Return(Ok)
           ELSE Fallible(calls[n + 1]) /\ Return(ErrIo)
        /\ LET set == {i \in 1..n : calls[i].op = "set_baud_rate"}
           IN serial' =
                  [serial EXCEPT
                     !.baud_rate = IF set = {} THEN serial.baud_rate
                                   ELSE calls[CHOOSE i \in set : \A j \in set : j <= i].v,
                     !.calls = SubSeq(calls, 1, n)]

\* The session after construction on the port given.
Opened(port) ==
    /\ impl \in Impls
    /\ pc = "idle"
    /\ stack = <<>>
    /\ top = "none"
    /\ is_rom_loader = TRUE
    /\ status_size = 0
    /\ cmd = "none"
    /\ cmd_code = 0
    /\ timeout = 0
    /\ elapsed = 0
    /\ round = 0
    /\ lineNo = 0
    /\ waiting = FALSE
    /\ syncNo = 0
    /\ drainNo = 0
    /\ arg = 0
    /\ result = Ok
    /\ chip = "None"
    /\ attached = FALSE
    /\ spi = NoSpi
    /\ fields = <<>>
    /\ payload = <<>>
    /\ packet = <<>>
    /\ response = <<>>
    /\ parsed = NoPacket
    /\ serial = port
    /\ bus = NewBus
    /\ written = 0
    /\ syncOk = FALSE
    /\ lastRead = "none"

Init == Opened(NewSerial)

session == <<impl, is_rom_loader, status_size>>
connectLocals == <<round, lineNo, waiting, syncNo>>
ghosts == <<written, syncOk, lastRead>>
facade == <<chip, attached, spi>>
call == <<fields, payload>>
codec == <<response, parsed>>

----------------------------------------------------------------------------
(* send_command_with_data and read_response *)

\* What a frame written inside spi_command is remembered by: its opcode, and
\* for WriteReg and ReadReg the address, for WriteReg the value as well.
Traffic(p) ==
    CASE p[2] = WriteReg ->
             [kind |-> "write", address |-> from_le32(p, 9),
              value |-> from_le32(p, 13)]
      [] p[2] = ReadReg -> [kind |-> "read", address |-> from_le32(p, 9)]
      [] OTHER -> [kind |-> "command", code |-> p[2]]

\* send_command_with_data up to the call of read_response: encode the packet,
\* write the frame, start the response deadline.
SendCommand ==
    /\ pc = "send_command"
    /\ cmd_code' = code(cmd)
    /\ timeout' = CommandTimeout(impl, cmd)
    /\ elapsed' = 0
    /\ \/ \* Flasher encodes ChangeBaudRate with self.serial.baud_rate()?
          /\ impl = "Flasher" /\ cmd = "ChangeBaudRate" /\ ~is_rom_loader
          /\ Return(ErrIo)
          /\ UNCHANGED <<written, packet, spi, bus>>
       \/ /\ LET old_rate == IF impl = "Flasher" /\ cmd = "ChangeBaudRate"
                                       /\ ~is_rom_loader
                              THEN serial.baud_rate ELSE 0
             IN packet' = Encode(impl, cmd, fields, payload, is_rom_loader, old_rate)
          /\ \/ \* set_timeout or write_all fails, write_all with a timeout
                \* too: Protocol::send_packet has traced SerialWrite before,
                \* Flasher::send_packet has not
                /\ \E failure \in {ErrIo} \cup (IF serial.write_stalls
                                               THEN {ErrTimeout} ELSE {}) :
                      Return(failure)
                /\ bus' = Emit(impl, bus,
                               <<Event("engine", "Command"), Event("engine", "SlipWrite")>>
                                   \o (IF impl = "Protocol"
                                       THEN <<Event("engine", "SerialWrite")>>
                                       ELSE <<>>))
                /\ UNCHANGED <<written, spi>>
             \/ /\ written' = written + 1
                /\ bus' = Emit(impl, bus,
                               <<Event("engine", "Command"), Event("engine", "SlipWrite"),
                                 Event("engine", "SerialWrite")>>)
                /\ spi' = IF spi.running
                          THEN [spi EXCEPT !.log = Append(@, Traffic(packet'))]
                          ELSE spi
                /\ Call("read_response", "send_after_read")
                /\ UNCHANGED result
    /\ serial' = [serial EXCEPT !.stale = FALSE]
    /\ UNCHANGED <<session, top, cmd, connectLocals, drainNo, arg,
                   syncOk, lastRead>>
    /\ UNCHANGED <<chip, attached, call, codec>>

\* The end of send_command_with_data: a timeout is traced, the response is
\* returned as it is.
SendAfterRead ==
    /\ pc = "send_after_read"
    /\ Return(result)
    /\ bus' = IF is_timeout(result)
              THEN Emit(impl, bus, <<Event("engine", "CommandTimeout")>>)
              ELSE bus
    /\ serial' = IF /\ is_timeout(result)
                    /\ serial.late_replies
                    /\ Cardinality(serial.owed \cup {cmd_code}) <= MaxOwed
                 THEN [serial EXCEPT !.owed = @ \cup {cmd_code}]
                 ELSE serial
    /\ UNCHANGED <<session, top, cmd, cmd_code, timeout, elapsed, connectLocals,
                   drainNo, arg, ghosts>>
    /\ UNCHANGED <<facade, call, packet, codec>>

\* Connection::read_response checks the deadline at the top of its loop.
DeadlinePassed == impl = "Connection" /\ elapsed > timeout

\* (The frame buffer `response` of Connection::read_response is a local of
\* the call and goes with it.)
ReadDone(r) ==
    /\ Return(r)
    /\ elapsed' = 0
    /\ response' = <<>>

\* What read_response examines when the frame f has been decoded: Protocol
\* and Flasher get each frame in a buffer of its own from read_packet;
\* Connection decodes into `response`, which it does not empty when it
\* discards a frame, so f follows the frames discarded before it.
Decoded(i, kept, f) == IF i = "Connection" THEN kept \o f ELSE f

\* Connection's read loop is followed into its next discard while the
\* buffer holds this many bytes of discarded frames at most.
MaxKept == 4

\* read_response: the deadline has passed at the top of the loop (Connection).
ReadDeadline ==
    /\ pc = "read_response"
    /\ DeadlinePassed
    /\ ReadDone(ErrTimeout)
    /\ lastRead' = "timeout"
    /\ UNCHANGED <<session, top, cmd, cmd_code, timeout, connectLocals, drainNo,
                   arg, written, syncOk>>
    /\ UNCHANGED <<facade, call, packet, parsed>>
    /\ UNCHANGED serial
    /\ UNCHANGED bus

\* read_response: the serial read times out before a frame is complete.
ReadTimeout ==
    /\ pc = "read_response"
    /\ ~DeadlinePassed
    /\ ReadDone(ErrTimeout)
    /\ lastRead' = "timeout"
    /\ UNCHANGED <<session, top, cmd, cmd_code, timeout, connectLocals, drainNo,
                   arg, written, syncOk>>
    /\ UNCHANGED <<facade, call, packet, parsed>>
    /\ UNCHANGED serial
    /\ UNCHANGED bus

\* read_response: the serial port reports an error that is no timeout.
ReadIoError ==
    /\ pc = "read_response"
    /\ ~DeadlinePassed
    /\ ReadDone(ErrIo)
    /\ lastRead' = "io"
    /\ UNCHANGED <<session, top, cmd, cmd_code, timeout, connectLocals, drainNo,
                   arg, written, syncOk>>
    /\ UNCHANGED <<facade, call, packet, parsed>>
    /\ UNCHANGED serial
    /\ UNCHANGED bus

\* read_response: one iteration of the loop in which read_packet yields a frame.
ReadFrame ==
    /\ pc = "read_response"
    /\ ~DeadlinePassed
    /\ \E f \in TargetFrames(cmd_code) :
          \E v \in {Process(impl, Decoded(impl, response, f), cmd_code,
                           is_rom_loader, status_size)} :
             /\ lastRead' = FrameKind(f, cmd_code)
             /\ bus' = Emit(impl, bus,
                            FrameEvents(impl, f, cmd_code, is_rom_loader, status_size))
             /\ status_size' = v.ss
             /\ syncOk' = (syncOk \/ (v.ret /\ v.res.kind = "ok" /\ cmd_code = Sync))
             /\ IF v.ret
                THEN ReadDone(v.res)
                ELSE /\ \E d \in Delays(ReadWait(impl, saturating_sub(timeout, elapsed))) :
                          /\ elapsed + d <= timeout + MaxLate * DEFAULT_SERIAL_TIMEOUT
                          /\ elapsed' = elapsed + d
                     /\ impl = "Connection" => Len(response) <= MaxKept
                     /\ response' = IF impl = "Connection"
                                    THEN Decoded(impl, response, f) ELSE response
                     /\ UNCHANGED <<pc, stack, result>>
             /\ \/ \* the frame is what the target says now
                   /\ serial' = serial
                \/ \* the frame is the answer owed to an earlier command
                   /\ cmd_code \in serial.owed
                   /\ f \in Replies(cmd_code)
                   /\ serial' = [serial EXCEPT !.owed = @ \ {cmd_code},
                                               !.stale = v.ret]
    /\ UNCHANGED <<impl, is_rom_loader, top, cmd, cmd_code,
                   timeout, connectLocals, drainNo, arg, written>>
    /\ UNCHANGED <<facade, call, packet, parsed>>

----------------------------------------------------------------------------
(* The single-command operations *)

ProtocolOps ==
    {"FlashBegin", "FlashData", "FlashEnd", "MemBegin", "MemData", "MemEnd",
     "WriteReg", "ReadReg", "SpiSetParams", "SpiAttach", "ChangeBaudRate",
     "SpiFlashMD5"}

\* The legacy engine encodes Sync and ReadReg only.
OpsOf(i) == IF i = "Connection" THEN {"ReadReg"} ELSE ProtocolOps

is_ascii_hexdigit(x) ==
    (48 <= x /\ x <= 57) \/ (65 <= x /\ x <= 70) \/ (97 <= x /\ x <= 102)

\* The digit value without the arm for 'A'..'F'.
HexValueNoUpper(x) == IF x <= 57 THEN x - 48 ELSE x - 97 + 10

\* The closure f of spi_flash_md5: the value of a hex digit.
HexValue(x) ==
    IF x <= 57 THEN x - 48 ELSE IF x >= 97 THEN x - 97 + 10 ELSE x - 65 + 10

\* spi_flash_md5 after send_command: the digest decoded by peer mode.
Md5Decode(r, rom_loader) ==
    IF rom_loader
    THEN IF Len(r.data) # 32 \/ \E i \in 1..Len(r.data) : ~is_ascii_hexdigit(r.data[i])
         THEN ErrCommand("InvalidResponse", r.frame)
         ELSE OkValue(0, [i \in 1..16 |->
                            16 * HexValue(r.data[2 * i - 1]) + HexValue(r.data[2 * i])],
                      r.frame)
    ELSE IF Len(r.data) # 16
         THEN ErrCommand("InvalidResponse", r.frame)
         ELSE OkValue(0, r.data, r.frame)

\* The arguments a single-command operation is called with: a are its
\* arguments, data its payload.  change_baud_rate is called here with the rate
\* the port was opened at; CallChangeBaudRate calls it with other rates.
OpArgs(i, c) ==
    CASE c \in {"FlashBegin", "MemBegin"} -> {[a |-> <<0, 0, 0, 0>>, data |-> <<>>]}
      [] c \in {"FlashData", "MemData"} -> {[a |-> <<0>>, data |-> <<1, 2>>]}
      [] c = "FlashEnd" -> {[a |-> <<TRUE>>, data |-> <<>>]}
      [] c = "MemEnd" -> {[a |-> <<TRUE, 0>>, data |-> <<>>]}
      [] c = "WriteReg" ->
             {[a |-> (IF i = "Protocol" THEN <<CHIP_MAGIC_REG, 1>>
                      ELSE <<CHIP_MAGIC_REG, 1, -1, 0>>),
               data |-> <<>>]}
      [] c = "ReadReg" -> {[a |-> <<CHIP_MAGIC_REG>>, data |-> <<>>]}
      [] c = "SpiSetParams" -> {[a |-> <<4096>>, data |-> <<>>]}
      [] c = "SpiAttach" -> {[a |-> <<>>, data |-> <<>>]}
      [] c = "ChangeBaudRate" -> {[a |-> <<OPEN_BAUD_RATE>>, data |-> <<>>]}
      [] c = "SpiFlashMD5" -> {[a |-> <<0, 4096>>, data |-> <<>>]}

\* A public single-command operation is called: cmd and fields are the
\* operation and its arguments until OpStart has built the Command.
CallOp ==
    /\ pc = "idle"
    /\ \E c \in OpsOf(impl) : \E x \in OpArgs(impl, c) :
          /\ top' = c
          /\ cmd' = c
          /\ fields' = x.a
          /\ payload' = x.data
          /\ arg' = IF c = "ChangeBaudRate" THEN x.a[1] ELSE 0
    /\ pc' = "op"
    /\ stack' = <<"done">>
    /\ written' = 0
    /\ lastRead' = "none"
    /\ UNCHANGED <<session, cmd_code, timeout, elapsed, connectLocals,
                   drainNo, result, syncOk>>
    /\ UNCHANGED <<facade, packet, codec>>
    /\ UNCHANGED serial
    /\ UNCHANGED bus

\* change_baud_rate(new_rate) is called with a rate of Rates.
CallChangeBaudRate ==
    /\ pc = "idle"
    /\ impl \in {"Protocol", "Flasher"}
    /\ \E new_rate \in Rates :
          /\ fields' = <<new_rate>>
          /\ arg' = new_rate
    /\ top' = "ChangeBaudRate"
    /\ cmd' = "ChangeBaudRate"
    /\ payload' = <<>>
    /\ pc' = "op"
    /\ stack' = <<"done">>
    /\ written' = 0
    /\ lastRead' = "none"
    /\ UNCHANGED <<session, cmd_code, timeout, elapsed, connectLocals,
                   drainNo, result, syncOk>>
    /\ UNCHANGED <<facade, packet, codec>>
    /\ UNCHANGED serial
    /\ UNCHANGED bus

\* The operation up to its send_command.  Protocol::change_baud_rate reads
\* the local baud rate first when the peer is the stub.
OpStart ==
    /\ pc = "op"
    /\ \/ /\ impl = "Protocol" /\ cmd = "ChangeBaudRate" /\ ~is_rom_loader
          /\ Return(ErrIo)
          /\ UNCHANGED fields
       \/ /\ LET old_rate == IF impl = "Protocol" /\ cmd = "ChangeBaudRate"
                                       /\ ~is_rom_loader
                              THEN serial.baud_rate ELSE 0
             IN fields' = CommandOf(impl, cmd, fields, payload, is_rom_loader,
                                    old_rate)
          /\ Call("send_command", "op_after_send")
          /\ UNCHANGED result
    /\ UNCHANGED <<session, top, cmd, cmd_code, timeout, elapsed, connectLocals,
                   drainNo, arg, ghosts>>
    /\ UNCHANGED <<facade, payload, packet, codec>>
    /\ UNCHANGED serial
    /\ UNCHANGED bus

\* The iterations of Flasher::change_baud_rate's loop that are followed.
MaxFlush == 1

\* change_baud_rate after send_command(..)?.  Protocol: consume the BufReader,
\* flush()?, set_baud_rate(new_rate)?.  Flasher: buffer.clear(),
\* set_baud_rate(new_rate)?, then `while bytes_to_read()? > 0 { clear(All)?;
\* sleep(5 ms) }`, here with the port holding bytes `flushes` times.
ChangeBaudRateCalls(i, new_rate, flushes) ==
    IF i = "Protocol"
    THEN <<PortCall("discard", 0), PortCall("flush", 0),
           PortCall("set_baud_rate", new_rate)>>
    ELSE <<PortCall("discard", 0), PortCall("set_baud_rate", new_rate)>>
             \o [k \in 1..(3 * flushes) |->
                    CASE k % 3 = 1 -> PortCall("bytes_to_read", 1)
                      [] k % 3 = 2 -> PortCall("clear", 0)
                      [] OTHER -> PortCall("sleep", 5)]
             \o <<PortCall("bytes_to_read", 0)>>

\* OpAfterSend with a timeout of the command taken for success.
OpAfterSendAbsorbsTimeout ==
    /\ pc = "op_after_send"
    /\ IF is_err(result) /\ ~is_timeout(result) THEN Return(result) ELSE Return(Ok)
    /\ UNCHANGED <<impl, is_rom_loader, status_size, top, cmd, cmd_code, timeout,
                   elapsed, connectLocals, drainNo, arg, ghosts>>
    /\ UNCHANGED <<facade, call, packet, codec>>
    /\ UNCHANGED serial
    /\ UNCHANGED bus

\* The operation after its send_command: `?` hands an error back unchanged;
\* on success the operation's own epilogue runs.
OpAfterSend ==
    /\ pc = "op_after_send"
    /\ IF is_err(result)
       THEN Return(result) /\ UNCHANGED serial
       ELSE CASE cmd = "ChangeBaudRate" ->
                   \E flushes \in 0..MaxFlush :
                       RunCalls(ChangeBaudRateCalls(impl, arg, flushes))
              [] cmd = "SpiFlashMD5" ->
                   Return(Md5Decode(result, is_rom_loader)) /\ UNCHANGED serial
              [] cmd = "ReadReg" ->
                   Return(result) /\ UNCHANGED serial
              [] OTHER ->
                   Return(Ok) /\ UNCHANGED serial
    \* Flasher::spi_attach: `self.attached = true` after `send_command(..)?`.
    /\ attached' = IF impl = "Flasher" /\ cmd = "SpiAttach" /\ ~is_err(result)
                   THEN TRUE ELSE attached
    /\ UNCHANGED <<impl, is_rom_loader, status_size, top, cmd, cmd_code, timeout,
                   elapsed, connectLocals, drainNo, arg, ghosts>>
    /\ UNCHANGED <<chip, spi, call, packet, codec>>
    /\ UNCHANGED bus

\* add_observer(observer): the observer joins the engine's list (an observer
\* is registered once here).
AddObserver ==
    /\ pc = "idle"
    /\ impl \in {"Protocol", "Flasher"}
    /\ \E o \in Observers :
          /\ \A k \in 1..Len(bus.engine) : bus.engine[k] # o
          /\ bus' = [bus EXCEPT !.engine = Append(@, o)]
    /\ UNCHANGED <<session, pc, stack, top, cmd, cmd_code, timeout, elapsed,
                   connectLocals, drainNo, arg, result, ghosts>>
    /\ UNCHANGED <<facade, call, packet, codec, serial>>

\* Protocol::set_rom_loader(is_rom_loader): the public setter of the
\* peer-mode flag.
SetRomLoader ==
    /\ pc = "idle"
    /\ impl = "Protocol"
    /\ \E b \in BOOLEAN : is_rom_loader' = b
    /\ UNCHANGED <<impl, status_size, pc, stack, top, cmd, cmd_code, timeout,
                   elapsed, connectLocals, drainNo, arg, result, ghosts>>
    /\ UNCHANGED <<facade, call, packet, codec>>
    /\ UNCHANGED serial
    /\ UNCHANGED bus

----------------------------------------------------------------------------
(* reset *)

\* The sequence of the legacy Connection::reset(), whatever the engine.
ResetCallsLegacy(i, enter_bootloader) ==
    <<PortCall("rts", 1), PortCall("dtr", 0), PortCall("sleep", 100),
      PortCall("dtr", 1), PortCall("rts", 0),
      PortCall("reset_event", 0), PortCall("discard", 0), PortCall("flush", 0)>>

\* What reset(enter_bootloader) does, in its order: the Reset event, the
\* local buffer dropped, the calls on the port and the sleeps between them.
\* Protocol::reset clears the port once more before the first line change;
\* the legacy Connection::reset() has its own, shorter sequence.
ResetCalls(i, enter_bootloader) ==
    LET lines == <<PortCall("rts", 1), PortCall("dtr", 0), PortCall("sleep", 100),
                   PortCall("clear", 0),
                   PortCall("dtr", IF enter_bootloader THEN 1 ELSE 0),
                   PortCall("rts", 0), PortCall("sleep", 500), PortCall("dtr", 0)>>
    IN CASE i = "Protocol" ->
                <<PortCall("reset_event", 0), PortCall("discard", 0),
                  PortCall("clear", 0)>> \o lines
         [] i = "Flasher" ->
                <<PortCall("reset_event", 0), PortCall("discard", 0)>> \o lines
         [] OTHER ->
                <<PortCall("rts", 1), PortCall("dtr", 0), PortCall("sleep", 100),
                  PortCall("dtr", 1), PortCall("rts", 0),
                  PortCall("reset_event", 0), PortCall("discard", 0),
                  PortCall("flush", 0)>>

\* reset(enter_bootloader): the Reset event, the local buffer dropped, the
\* control-line sequence.  Protocol::reset sets is_rom_loader before its
\* first serial call; Flasher::reset and Connection::reset do not assign the
\* peer-mode flag.  Any of the serial calls may fail, which ends the
\* sequence with that error.
Reset ==
    /\ pc = "reset"
    /\ is_rom_loader' = (IF impl = "Protocol" THEN TRUE ELSE is_rom_loader)
    /\ RunCalls(ResetCalls(impl, arg))
    /\ bus' = IF \E k \in 1..Len(serial'.calls) : serial'.calls[k].op = "reset_event"
              THEN Emit(impl, bus, <<Event("engine", "Reset")>>)
              ELSE bus
    /\ UNCHANGED <<impl, status_size, top, cmd, cmd_code, timeout,
                   elapsed, connectLocals, drainNo, arg, ghosts>>
    /\ UNCHANGED <<facade, call, packet, codec>>

\* The public reset is called (Connection::reset takes no argument and
\* always enters the bootloader).
CallReset ==
    /\ pc = "idle"
    /\ top' = "reset"
    /\ \E enter_bootloader \in (IF impl = "Connection" THEN {TRUE} ELSE BOOLEAN) :
          arg' = enter_bootloader
    /\ pc' = "reset"
    /\ stack' = <<"done">>
    /\ UNCHANGED <<session, cmd, cmd_code, timeout, elapsed, connectLocals,
                   drainNo, result, ghosts>>
    /\ UNCHANGED <<facade, call, packet, codec>>
    /\ UNCHANGED serial
    /\ UNCHANGED bus

----------------------------------------------------------------------------
(* read_line *)

\* A line handed back by read_line; NoLine once the caller has dropped it.
LineResult(l) == OkValue(0, l, <<>>)
NoLine == LineResult("")

\* read_line(timeout): a line up to and including '\n', a timeout, or a
\* transport error.
ReadLine ==
    /\ pc = "read_line"
    /\ \/ /\ \E l \in TargetLines : Return(LineResult(l))
          /\ bus' = Emit(impl, bus,
                         <<Event("port", "SerialRead"), Event("engine", "SerialLine")>>)
       \/ Return(ErrTimeout) /\ UNCHANGED bus
       \/ Return(ErrIo) /\ UNCHANGED bus
    /\ UNCHANGED <<session, top, cmd, cmd_code, timeout, elapsed, connectLocals,
                   drainNo, arg, ghosts>>
    /\ UNCHANGED <<facade, call, packet, codec>>
    /\ UNCHANGED serial

----------------------------------------------------------------------------
(* sync *)

\* sync: send the Sync command.
SyncStart ==
    /\ pc = "sync"
    /\ cmd' = "Sync"
    /\ fields' = <<>>
    /\ payload' = <<>>
    /\ Call("send_command", "sync_after_send")
    /\ UNCHANGED <<session, top, cmd_code, timeout, elapsed, connectLocals,
                   drainNo, arg, result, ghosts>>
    /\ UNCHANGED <<facade, packet, codec>>
    /\ UNCHANGED serial
    /\ UNCHANGED bus

\* sync: `self.send_command(cmd)?`, then the drain loop begins.
SyncAfterSend ==
    /\ pc = "sync_after_send"
    /\ IF is_err(result)
       THEN Return(result)
       ELSE /\ pc' = "sync_drain"
            /\ result' = Ok
            /\ UNCHANGED stack
    /\ drainNo' = 0
    /\ UNCHANGED <<session, top, cmd, cmd_code, timeout, elapsed, connectLocals,
                   arg, ghosts>>
    /\ UNCHANGED <<facade, call, packet, codec>>
    /\ UNCHANGED serial
    /\ UNCHANGED bus

\* sync: the head of `for _ in 0..100`.
SyncDrain ==
    /\ pc = "sync_drain"
    /\ IF drainNo < SYNC_DRAIN
       THEN /\ drainNo' = drainNo + 1
            /\ elapsed' = 0
            /\ Call("read_response", "sync_after_read")
            /\ UNCHANGED result
       ELSE /\ Return(Ok)
            /\ drainNo' = 0
            /\ UNCHANGED elapsed
    /\ UNCHANGED <<session, top, cmd, cmd_code, timeout, connectLocals, arg,
                   ghosts>>
    /\ UNCHANGED <<facade, call, packet, codec>>
    /\ UNCHANGED serial
    /\ UNCHANGED bus

\* sync: the match on the drain read.  Protocol::sync and Flasher::sync return
\* an error that is no timeout; Connection::sync tests only for the timeout
\* and goes on with the loop otherwise.
SyncAfterRead ==
    /\ pc = "sync_after_read"
    /\ IF ~is_err(result)
       THEN /\ pc' = "sync_drain"
            /\ result' = Ok
            /\ UNCHANGED <<stack, drainNo>>
       ELSE IF is_timeout(result)
       THEN /\ Return(Ok)
            /\ drainNo' = 0
       ELSE IF impl = "Connection"
       THEN /\ pc' = "sync_drain"
            /\ result' = Ok
            /\ UNCHANGED <<stack, drainNo>>
       ELSE /\ Return(result)
            /\ drainNo' = 0
    /\ UNCHANGED <<session, top, cmd, cmd_code, timeout, elapsed, connectLocals,
                   arg, ghosts>>
    /\ UNCHANGED <<facade, call, packet, codec>>
    /\ UNCHANGED serial
    /\ UNCHANGED bus

\* The public sync is called.
CallSync ==
    /\ pc = "idle"
    /\ top' = "sync"
    /\ pc' = "sync"
    /\ stack' = <<"done">>
    /\ UNCHANGED <<session, cmd, cmd_code, timeout, elapsed, connectLocals,
                   drainNo, arg, result, ghosts>>
    /\ UNCHANGED <<facade, call, packet, codec>>
    /\ UNCHANGED serial
    /\ UNCHANGED bus

----------------------------------------------------------------------------
(* connect *)

\* Connection::connect resets once; Protocol and Flasher reset in each of up
\* to ten rounds.
RoundsOf(i) == IF i = "Connection" THEN 1 ELSE CONNECT_ROUNDS

\* The public connect is called.
CallConnect ==
    /\ pc = "idle"
    /\ top' = "connect"
    /\ pc' = "connect_round"
    /\ stack' = <<"done">>
    /\ round' = 0
    /\ lineNo' = 0
    /\ waiting' = FALSE
    /\ syncNo' = 0
    /\ UNCHANGED <<session, cmd, cmd_code, timeout, elapsed, drainNo, arg,
                   result, ghosts>>
    /\ UNCHANGED <<facade, call, packet, codec>>
    /\ UNCHANGED serial
    /\ UNCHANGED bus

\* connect: the head of the round loop, `self.reset(true)`.
ConnectRound ==
    /\ pc = "connect_round"
    /\ IF round < RoundsOf(impl)
       THEN /\ round' = round + 1
            /\ lineNo' = 0
            /\ arg' = TRUE
            /\ Call("reset", "connect_after_reset")
       ELSE /\ pc' = "connect_check"
            /\ round' = 0
            /\ lineNo' = 0
            /\ UNCHANGED <<arg, stack>>
    /\ UNCHANGED <<session, top, cmd, cmd_code, timeout, elapsed, waiting,
                   syncNo, drainNo, result, ghosts>>
    /\ UNCHANGED <<facade, call, packet, codec>>
    /\ UNCHANGED serial
    /\ UNCHANGED bus

\* connect: `self.reset(true)?`.
ConnectAfterReset ==
    /\ pc = "connect_after_reset"
    /\ IF is_err(result)
       THEN Return(result)
       ELSE /\ pc' = "connect_line"
            /\ UNCHANGED <<stack, result>>
    /\ UNCHANGED <<session, top, cmd, cmd_code, timeout, elapsed, connectLocals,
                   drainNo, arg, ghosts>>
    /\ UNCHANGED <<facade, call, packet, codec>>
    /\ UNCHANGED serial
    /\ UNCHANGED bus

\* connect: the head of the line loop, `self.read_line(timeout)`.
ConnectLine ==
    /\ pc = "connect_line"
    /\ IF lineNo < CONNECT_LINES
       THEN /\ lineNo' = lineNo + 1
            /\ Call("read_line", "connect_after_line")
       ELSE /\ pc' = "connect_round"
            /\ UNCHANGED <<lineNo, stack>>
    /\ UNCHANGED <<session, top, cmd, cmd_code, timeout, elapsed, round, waiting,
                   syncNo, drainNo, arg, result, ghosts>>
    /\ UNCHANGED <<facade, call, packet, codec>>
    /\ UNCHANGED serial
    /\ UNCHANGED bus

\* connect: the test on the line read.  Protocol and Flasher:
\*   if line.is_timeout() || line? == b"waiting for download\r\n"
\* Connection: `self.read_line(timeout)?` and then the comparison.
ConnectAfterLine ==
    /\ pc = "connect_after_line"
    /\ IF impl # "Connection" /\ is_timeout(result)
       THEN /\ waiting' = TRUE
            /\ pc' = "connect_check"
            /\ round' = 0
            /\ lineNo' = 0
            /\ UNCHANGED <<stack, result>>
       ELSE IF is_err(result)
       THEN /\ Return(result)
            /\ UNCHANGED <<waiting, round, lineNo>>
       ELSE IF result.data = Banner
       THEN /\ waiting' = TRUE
            /\ pc' = "connect_check"
            /\ round' = 0
            /\ lineNo' = 0
            /\ UNCHANGED <<stack, result>>
       ELSE /\ pc' = "connect_line"
            /\ result' = NoLine
            /\ UNCHANGED <<waiting, stack, round, lineNo>>
    /\ UNCHANGED <<session, top, cmd, cmd_code, timeout, elapsed,
                   syncNo, drainNo, arg, ghosts>>
    /\ UNCHANGED <<facade, call, packet, codec>>
    /\ UNCHANGED serial
    /\ UNCHANGED bus

\* connect: `if !waiting { return Err(TimedOut) }`.
ConnectCheck ==
    /\ pc = "connect_check"
    /\ IF ~waiting
       THEN Return(ErrTimeout)
       ELSE /\ pc' = "connect_sync"
            /\ result' = Ok
            /\ UNCHANGED stack
    /\ UNCHANGED <<session, top, cmd, cmd_code, timeout, elapsed, connectLocals,
                   drainNo, arg, ghosts>>
    /\ UNCHANGED <<facade, call, packet, codec>>
    /\ UNCHANGED serial
    /\ UNCHANGED bus

\* connect: the head of the sync loop; `Ok(())` when the loop is exhausted.
ConnectSync ==
    /\ pc = "connect_sync"
    /\ IF syncNo < CONNECT_SYNCS
       THEN /\ syncNo' = syncNo + 1
            /\ Call("sync", "connect_after_sync")
            /\ UNCHANGED result
       ELSE /\ Return(Ok)
            /\ syncNo' = 0
    /\ UNCHANGED <<session, top, cmd, cmd_code, timeout, elapsed, round, lineNo,
                   waiting, drainNo, arg, ghosts>>
    /\ UNCHANGED <<facade, call, packet, codec>>
    /\ UNCHANGED serial
    /\ UNCHANGED bus

\* connect: `if result.is_timeout() { continue; } result?; break;`.
ConnectAfterSync ==
    /\ pc = "connect_after_sync"
    /\ IF is_timeout(result)
       THEN /\ pc' = "connect_sync"
            /\ result' = Ok
            /\ UNCHANGED <<stack, syncNo>>
       ELSE /\ IF is_err(result) THEN Return(result) ELSE Return(Ok)
            /\ syncNo' = 0
    /\ UNCHANGED <<session, top, cmd, cmd_code, timeout, elapsed, round, lineNo,
                   waiting, drainNo, arg, ghosts>>
    /\ UNCHANGED <<facade, call, packet, codec>>
    /\ UNCHANGED serial
    /\ UNCHANGED bus

----------------------------------------------------------------------------
(* Stub activation *)

OHAI == <<79, 72, 65, 73>>

\* What the line can deliver where the stub's greeting is read.
HelloFrames == {OHAI, <<79, 72, 65>>, <<>>}

\* The commands of the upload: text, then data with MemEnd(entry).
StubUploadCmds == <<"MemBegin", "MemData", "MemBegin", "MemData", "MemEnd">>

\* The arguments of the upload's commands: one packet of four bytes.
StubArgs(c) ==
    CASE c = "MemBegin" -> [a |-> <<4, 1, 4, 0>>, data |-> <<>>]
      [] c = "MemData" -> [a |-> <<0>>, data |-> <<0, 0, 0, 0>>]
      [] OTHER -> [a |-> <<TRUE, 0>>, data |-> <<>>]

\* run_stub is called.
CallRunStub ==
    /\ pc = "idle"
    /\ impl # "Connection"
    /\ top' = "run_stub"
    /\ pc' = "stub_upload"
    /\ stack' = <<"done">>
    /\ arg' = 0
    /\ UNCHANGED <<session, cmd, cmd_code, timeout, elapsed, connectLocals,
                   drainNo, result, ghosts>>
    /\ UNCHANGED <<facade, call, packet, codec>>
    /\ UNCHANGED serial
    /\ UNCHANGED bus

\* run_stub: the next command of the upload.
StubUpload ==
    /\ pc = "stub_upload"
    /\ arg' = arg + 1
    /\ cmd' = StubUploadCmds[arg + 1]
    /\ LET x == StubArgs(StubUploadCmds[arg + 1])
       IN /\ fields' = CommandOf(impl, StubUploadCmds[arg + 1], x.a, x.data,
                                 is_rom_loader, 0)
          /\ payload' = x.data
    /\ Call("send_command", "stub_after_send")
    /\ UNCHANGED <<session, top, cmd_code, timeout, elapsed, connectLocals,
                   drainNo, result, ghosts>>
    /\ UNCHANGED <<facade, packet, codec>>
    /\ UNCHANGED serial
    /\ UNCHANGED bus

\* run_stub: after a command of the upload.  A timeout of the final MemEnd is
\* accepted when the peer is the ROM loader (it has jumped into the stub).
StubAfterSend ==
    /\ pc = "stub_after_send"
    /\ IF ~is_err(result) \/ (is_timeout(result) /\ cmd = "MemEnd" /\ is_rom_loader)
       THEN /\ pc' = (IF arg = Len(StubUploadCmds) THEN "stub_hello" ELSE "stub_upload")
            /\ result' = Ok
            /\ UNCHANGED stack
       ELSE Return(result)
    /\ UNCHANGED <<session, top, cmd, cmd_code, timeout, elapsed, connectLocals,
                   drainNo, arg, ghosts>>
    /\ UNCHANGED <<facade, call, packet, codec>>
    /\ UNCHANGED serial
    /\ UNCHANGED bus

\* run_stub: one SLIP frame is read; its payload must be OHAI, and then the
\* peer-mode flag is flipped to stub.
StubHello ==
    /\ pc = "stub_hello"
    /\ \/ /\ \E f \in HelloFrames :
               IF f = OHAI
               THEN /\ is_rom_loader' = FALSE
                    /\ Return(Ok)
               ELSE /\ Return(Res("stub_failed", 0, <<>>, "", f))
                    /\ UNCHANGED is_rom_loader
          /\ bus' = Emit(impl, bus,
                         <<Event("port", "SerialRead"), Event("engine", "SlipRead")>>)
       \/ /\ Return(ErrTimeout)
          /\ UNCHANGED <<is_rom_loader, bus>>
       \/ /\ Return(ErrIo)
          /\ UNCHANGED <<is_rom_loader, bus>>
    /\ UNCHANGED <<impl, status_size, top, cmd, cmd_code, timeout,
                   elapsed, connectLocals, drainNo, arg, ghosts>>
    /\ UNCHANGED <<facade, call, packet, codec>>
    /\ UNCHANGED serial

----------------------------------------------------------------------------
(* The Flasher's chip, attach and SPI operations *)

\* Flasher::set_chip: the status width that goes with the chip.
ChipStatusSize(rom_loader, c) == IF ~rom_loader \/ c = "Esp8266" THEN 2 ELSE 4

\* Flasher::set_chip(chip)
SetChip ==
    /\ pc = "idle"
    /\ impl = "Flasher"
    /\ \E c \in Chips :
          /\ chip' = c
          /\ status_size' = ChipStatusSize(is_rom_loader, c)
    /\ UNCHANGED <<impl, is_rom_loader, pc, stack, top, cmd, cmd_code, timeout,
                   elapsed, connectLocals, drainNo, arg, result, ghosts>>
    /\ UNCHANGED <<attached, spi, call, packet, codec>>
    /\ UNCHANGED serial
    /\ UNCHANGED bus

\* A private call of one of the Flasher's single-command operations.
CallCommand(c, a, ret) ==
    /\ cmd' = c
    /\ fields' = a
    /\ payload' = <<>>
    /\ Call("op", ret)

\* Flasher::detect_chip is called; it starts with read_reg(CHIP_MAGIC_REG).
CallDetectChip ==
    /\ pc = "idle"
    /\ impl = "Flasher"
    /\ top' = "detect_chip"
    /\ cmd' = "ReadReg"
    /\ fields' = <<CHIP_MAGIC_REG>>
    /\ payload' = <<>>
    /\ pc' = "op"
    /\ stack' = <<"detect_after_read", "done">>
    /\ written' = 0
    /\ lastRead' = "none"
    /\ UNCHANGED <<session, cmd_code, timeout, elapsed, connectLocals,
                   drainNo, arg, result, syncOk>>
    /\ UNCHANGED <<facade, packet, codec>>
    /\ UNCHANGED serial
    /\ UNCHANGED bus

\* detect_chip after its read_reg: `?`, then the table look-up and set_chip,
\* or UnknownDevice(magic).
DetectAfterRead ==
    /\ pc = "detect_after_read"
    /\ IF is_err(result)
       THEN Return(result) /\ UNCHANGED <<chip, status_size>>
       ELSE LET c == try_from_magic(result.value)
            IN IF c # "None"
               THEN /\ chip' = c
                    /\ status_size' = ChipStatusSize(is_rom_loader, c)
                    /\ Return(Res("ok", result.value, c, "", <<>>))
               ELSE /\ Return(ErrUnknownDevice(result.value))
                    /\ UNCHANGED <<chip, status_size>>
    /\ UNCHANGED <<impl, is_rom_loader, top, cmd, cmd_code, timeout,
                   elapsed, connectLocals, drainNo, arg, ghosts>>
    /\ UNCHANGED <<attached, spi, call, packet, codec>>
    /\ UNCHANGED serial
    /\ UNCHANGED bus

\* Flasher::attach is called.
CallAttach ==
    /\ pc = "idle"
    /\ impl = "Flasher"
    /\ top' = "attach"
    /\ pc' = "attach"
    /\ stack' = <<"done">>
    /\ written' = 0
    /\ lastRead' = "none"
    /\ UNCHANGED <<session, cmd, cmd_code, timeout, elapsed, connectLocals,
                   drainNo, arg, result, syncOk>>
    /\ UNCHANGED <<facade, call, packet, codec>>
    /\ UNCHANGED serial
    /\ UNCHANGED bus

\* Flasher::attach: chip()?, then flash_begin(0, 0, 0, 0) on the ESP8266 and
\* spi_attach() on every other chip, whose result is attach's result.
Attach ==
    /\ pc = "attach"
    /\ IF chip = "None"
       THEN Return(ErrMustSetChipFirst) /\ UNCHANGED <<cmd, call>>
       ELSE /\ cmd' = (IF chip = "Esp8266" THEN "FlashBegin" ELSE "SpiAttach")
            /\ fields' = (IF chip = "Esp8266" THEN <<0, 0, 0, 0>> ELSE <<>>)
            /\ payload' = <<>>
            /\ pc' = "op"
            /\ UNCHANGED <<stack, result>>
    /\ UNCHANGED <<session, top, cmd_code, timeout, elapsed, connectLocals,
                   drainNo, arg, ghosts>>
    /\ UNCHANGED <<facade, packet, codec>>
    /\ UNCHANGED serial
    /\ UNCHANGED bus

\* The arguments of a spi_command call.
SpiCall(command, command_len, address, address_len, dummy_cycles, data, output_len) ==
    [command |-> command, command_len |-> command_len, address |-> address,
     address_len |-> address_len, dummy_cycles |-> dummy_cycles, data |-> data,
     output_len |-> output_len]

\* flash_id's spi_command(0x9F, 1, 0, 0, 0, &[], &mut [0u8; 3])
FlashIdCall == SpiCall(159, 1, 0, 0, 0, <<>>, 3)

\* The spi_command calls of the model: a page program with a three-byte
\* address and five bytes of data, a two-byte command with dummy cycles and
\* five bytes of output, and calls with one operand out of its range each: the
\* command length (0, 3), the address length, the dummy cycles, the data and
\* the output.
SpiCalls ==
    {SpiCall(2, 1, 74565, 3, 0, <<1, 2, 3, 4, 5>>, 0),
     SpiCall(4660, 2, 0, 0, 8, <<>>, 5),
     SpiCall(159, 3, 0, 0, 0, <<>>, 3),
     SpiCall(159, 0, 0, 0, 0, <<>>, 3),
     SpiCall(3, 1, 0, 5, 0, <<>>, 1),
     SpiCall(11, 1, 0, 3, 256, <<>>, 1),
     SpiCall(2, 1, 0, 3, 0, Zeros(65), 0),
     SpiCall(3, 1, 0, 3, 0, <<>>, 65)}

\* The operand check without the test of the command length.
SpiCallValidAnyCommandLen(x) ==
    /\ x.address_len \in 0..4
    /\ x.dummy_cycles \in 0..255
    /\ Len(x.data) <= 64
    /\ x.output_len <= 64

\* spi_command's operand check.
SpiCallValid(x) ==
    /\ x.command_len \in {1, 2}
    /\ x.address_len \in 0..4
    /\ x.dummy_cycles \in 0..255
    /\ Len(x.data) <= 64
    /\ x.output_len <= 64

\* n << 28 of a u32, for n below 16.
Shl28(n) == (IF n >= 8 THEN n - 16 ELSE n) * 268435456

\* u16::to_be on a little-endian host, as a u32.
SwapBytes16(v) == (v % 256) * 256 + ((v \div 256) % 256)

\* from_le: up to four bytes, little-endian.
from_le(data) == from_le32(data \o Zeros(4 - Len(data)), 1)

\* data.chunks(4)
Chunk(data, pos) == Slice(data, 4 * pos + 1, IF 4 * pos + 4 <= Len(data)
                                            THEN 4 * pos + 4 ELSE Len(data))

Chunks(n) == (n + 3) \div 4

\* The address as spi_command writes it to the address register.
SpiAddress(address, address_len) ==
    LET b == to_le32(address)
    IN CASE address_len = 1 -> address
         [] address_len = 2 -> from_le32(<<b[2], b[1], 0, 0>>, 1)
         [] address_len = 3 -> from_le32(<<b[3], b[2], b[1], 0>>, 1)
         [] address_len = 4 -> from_le32(<<b[4], b[3], b[2], b[1]>>, 1)

Reg(address, value) == [address |-> address, value |-> value]

\* SPI_USER_REG as spi_command builds it: SPI_USR_COMMAND (bit 31) and the
\* ADDR, DUMMY, MISO and MOSI bits 30 to 27.
SpiUserData(x) ==
    (-2147483647 - 1)
        + (IF x.address_len > 0 THEN 1073741824 ELSE 0)
        + (IF x.dummy_cycles > 0 THEN 536870912 ELSE 0)
        + (IF x.output_len > 0 THEN 268435456 ELSE 0)
        + (IF x.data # <<>> THEN 134217728 ELSE 0)

\* SPI_USER1_REG as spi_command builds it; the ESP8266 has its data lengths
\* here.
SpiUser1Data(c, x) ==
    (IF x.address_len > 0 THEN (x.address_len * 8 - 1) * 67108864 ELSE 0)
        + (IF x.dummy_cycles > 0 THEN x.dummy_cycles - 1 ELSE 0)
        + (IF x.data # <<>> /\ c = "Esp8266"
           THEN (Len(x.data) * 8 - 1) * 131072 ELSE 0)
        + (IF x.output_len > 0 /\ c = "Esp8266"
           THEN (x.output_len * 8 - 1) * 256 ELSE 0)

\* SPI_USR: bit 18 of SPI_CMD_REG.
SPI_USR == 262144

\* What a poll's answer is remembered by: cmd & SPI_USR.
Polled(v) ==
    [kind |-> "polled", value |-> SPI_USR * ((to_le32(v)[3] \div 4) % 2)]

\* A poll loop that takes every value for idle.
SpiIdleAlways(v) == TRUE

\* cmd & SPI_USR == 0
SpiIdle(v) == (to_le32(v)[3] \div 4) % 2 = 0

\* The registers spi_command writes before it polls, in its order.
SpiWrites(c, x) ==
    LET regs == spi_regs(c)
        command == IF x.command_len = 1 THEN x.command ELSE SwapBytes16(x.command)
    IN <<Reg(regs.user2, Shl28(x.command_len * 8 - 1) + command)>>
         \o (IF x.address_len > 0
             THEN <<Reg(regs.addr, SpiAddress(x.address, x.address_len))>>
             ELSE <<>>)
         \o (IF x.data # <<>> /\ c # "Esp8266"
             THEN <<Reg(regs.mosi_dlen, Len(x.data) * 8 - 1)>> ELSE <<>>)
         \o [pos \in 1..Chunks(Len(x.data)) |->
                 Reg(RegW(regs, pos - 1), from_le(Chunk(x.data, pos - 1)))]
         \o (IF x.output_len > 0 /\ c # "Esp8266"
             THEN <<Reg(regs.miso_dlen, x.output_len * 8 - 1)>> ELSE <<>>)
         \o <<Reg(regs.user1, SpiUser1Data(c, x)), Reg(regs.user, SpiUserData(x)),
              Reg(regs.cmd, SPI_USR)>>

\* spi_command's locals: its arguments, the register writes still to make,
\* the polls that found the controller busy, the output chunks read and the
\* output buffer; log is the history of the call: the frames it has written
\* and the values its polls have returned.
SpiLocals(x, writes) ==
    [running |-> TRUE, x |-> x, writes |-> writes, polls |-> 0, pos |-> 0,
     output |-> <<>>, log |-> <<>>]

\* spi_command returns.
SpiReturn(r) ==
    /\ Return(r)
    /\ spi' = NoSpi

\* Flasher::spi_command is called.
CallSpiCommand ==
    /\ pc = "idle"
    /\ impl = "Flasher"
    /\ top' = "spi_command"
    /\ \E x \in SpiCalls : spi' = SpiLocals(x, <<>>)
    /\ pc' = "spi_command"
    /\ stack' = <<"done">>
    /\ written' = 0
    /\ lastRead' = "none"
    /\ UNCHANGED <<session, cmd, cmd_code, timeout, elapsed, connectLocals,
                   drainNo, arg, result, syncOk>>
    /\ UNCHANGED <<chip, attached, call, packet, codec>>
    /\ UNCHANGED serial
    /\ UNCHANGED bus

\* Flasher::flash_id is called; it starts with its spi_command.
CallFlashId ==
    /\ pc = "idle"
    /\ impl = "Flasher"
    /\ top' = "flash_id"
    /\ spi' = SpiLocals(FlashIdCall, <<>>)
    /\ pc' = "spi_command"
    /\ stack' = <<"flash_id_after", "done">>
    /\ written' = 0
    /\ lastRead' = "none"
    /\ UNCHANGED <<session, cmd, cmd_code, timeout, elapsed, connectLocals,
                   drainNo, arg, result, syncOk>>
    /\ UNCHANGED <<chip, attached, call, packet, codec>>
    /\ UNCHANGED serial
    /\ UNCHANGED bus

\* flash_id after its spi_command: `?`, then (output[0], from_be16(output[1..3])).
FlashIdAfter ==
    /\ pc = "flash_id_after"
    /\ IF is_err(result)
       THEN Return(result)
       ELSE Return(OkValue(result.data[2] * 256 + result.data[3],
                           <<result.data[1]>>, <<>>))
    /\ UNCHANGED <<session, top, cmd, cmd_code, timeout, elapsed, connectLocals,
                   drainNo, arg, ghosts>>
    /\ UNCHANGED <<facade, call, packet, codec>>
    /\ UNCHANGED serial
    /\ UNCHANGED bus

\* spi_command up to its first command: the operand check, chip()?, and
\* spi_attach() when the attached flag is not set.
SpiCommand ==
    /\ pc = "spi_command"
    /\ IF ~SpiCallValid(spi.x)
       THEN SpiReturn(ErrInvalidSpiCommand) /\ UNCHANGED <<cmd, call>>
       ELSE IF chip = "None"
       THEN SpiReturn(ErrMustSetChipFirst) /\ UNCHANGED <<cmd, call>>
       ELSE /\ spi' = [spi EXCEPT !.writes = SpiWrites(chip, spi.x)]
            /\ IF ~attached
               THEN CallCommand("SpiAttach", <<>>, "spi_after_attach")
               ELSE pc' = "spi_write" /\ UNCHANGED <<stack, cmd, call>>
            /\ UNCHANGED result
    /\ UNCHANGED <<session, top, cmd_code, timeout, elapsed, connectLocals,
                   drainNo, arg, ghosts>>
    /\ UNCHANGED <<chip, attached, packet, codec>>
    /\ UNCHANGED serial
    /\ UNCHANGED bus

\* spi_command after its spi_attach: `.context(..)?`.
SpiAfterAttach ==
    /\ pc = "spi_after_attach"
    /\ IF is_err(result)
       THEN SpiReturn(result)
       ELSE pc' = "spi_write" /\ UNCHANGED <<stack, result, spi>>
    /\ UNCHANGED <<session, top, cmd, cmd_code, timeout, elapsed, connectLocals,
                   drainNo, arg, ghosts>>
    /\ UNCHANGED <<chip, attached, call, packet, codec>>
    /\ UNCHANGED serial
    /\ UNCHANGED bus

\* spi_command's next write_reg(address, value, 0xFFFFFFFF, 0); the poll
\* loop follows the last one.
SpiWrite ==
    /\ pc = "spi_write"
    /\ IF spi.writes = <<>>
       THEN pc' = "spi_poll" /\ UNCHANGED <<stack, cmd, call>>
       ELSE CallCommand("WriteReg",
                        <<Head(spi.writes).address, Head(spi.writes).value, -1, 0>>,
                        "spi_after_write")
    /\ UNCHANGED <<session, top, cmd_code, timeout, elapsed, connectLocals,
                   drainNo, arg, result, ghosts>>
    /\ UNCHANGED <<facade, packet, codec>>
    /\ UNCHANGED serial
    /\ UNCHANGED bus

\* spi_command after a write_reg: `?`.
SpiAfterWrite ==
    /\ pc = "spi_after_write"
    /\ IF is_err(result)
       THEN SpiReturn(result)
       ELSE /\ spi' = [spi EXCEPT !.writes = Tail(@)]
            /\ pc' = "spi_write"
            /\ UNCHANGED <<stack, result>>
    /\ UNCHANGED <<session, top, cmd, cmd_code, timeout, elapsed, connectLocals,
                   drainNo, arg, ghosts>>
    /\ UNCHANGED <<chip, attached, call, packet, codec>>
    /\ UNCHANGED serial
    /\ UNCHANGED bus

\* The poll loop's read_reg(regs.cmd).
SpiPoll ==
    /\ pc = "spi_poll"
    /\ CallCommand("ReadReg", <<spi_regs(chip).cmd>>, "spi_after_poll")
    /\ UNCHANGED <<session, top, cmd_code, timeout, elapsed, connectLocals,
                   drainNo, arg, result, ghosts>>
    /\ UNCHANGED <<facade, packet, codec>>
    /\ UNCHANGED serial
    /\ UNCHANGED bus

\* The poll loop after its read_reg: `?`; SPI_USR clear ends the loop, set
\* sleeps 100 ms and polls again.  The loop has no bound of its own; the
\* history counts and keeps the first MaxPolls busy polls and forgets the
\* later ones.
SpiAfterPoll ==
    /\ pc = "spi_after_poll"
    /\ IF is_err(result)
       THEN SpiReturn(result) /\ UNCHANGED written
       ELSE IF SpiIdle(result.value)
       THEN /\ spi' = [spi EXCEPT !.log = Append(@, Polled(result.value))]
            /\ pc' = "spi_read"
            /\ UNCHANGED <<stack, result, written>>
       ELSE /\ spi' = IF spi.polls < MaxPolls
                      THEN [spi EXCEPT !.polls = @ + 1,
                                       !.log = Append(@, Polled(result.value))]
                      ELSE [spi EXCEPT !.log = SubSeq(@, 1, Len(@) - 1)]
            /\ written' = IF spi.polls < MaxPolls THEN written ELSE written - 1
            /\ pc' = "spi_poll"
            /\ UNCHANGED <<stack, result>>
    /\ UNCHANGED <<session, top, cmd, cmd_code, timeout, elapsed, connectLocals,
                   drainNo, arg, syncOk, lastRead>>
    /\ UNCHANGED <<chip, attached, call, packet, codec>>
    /\ UNCHANGED serial
    /\ UNCHANGED bus

\* The output loop: read_reg(regs.w(pos)) for the next chunk of the output
\* buffer, Ok(()) after the last.
SpiRead ==
    /\ pc = "spi_read"
    /\ IF spi.pos >= Chunks(spi.x.output_len)
       THEN SpiReturn(OkValue(0, spi.output, <<>>)) /\ UNCHANGED <<cmd, call>>
       ELSE /\ CallCommand("ReadReg", <<RegW(spi_regs(chip), spi.pos)>>, "spi_after_out")
            /\ UNCHANGED <<result, spi>>
    /\ UNCHANGED <<session, top, cmd_code, timeout, elapsed, connectLocals,
                   drainNo, arg, ghosts>>
    /\ UNCHANGED <<chip, attached, packet, codec>>
    /\ UNCHANGED serial
    /\ UNCHANGED bus

\* The output loop after its read_reg: `?`, then the first bytes of the
\* value, little-endian, fill the chunk.
SpiAfterOut ==
    /\ pc = "spi_after_out"
    /\ IF is_err(result)
       THEN SpiReturn(result)
       ELSE LET left == spi.x.output_len - 4 * spi.pos
                n == IF left < 4 THEN left ELSE 4
            IN /\ spi' = [spi EXCEPT !.pos = @ + 1,
                                     !.output = @ \o Slice(to_le32(result.value), 1, n)]
               /\ pc' = "spi_read"
               /\ UNCHANGED <<stack, result>>
    /\ UNCHANGED <<session, top, cmd, cmd_code, timeout, elapsed, connectLocals,
                   drainNo, arg, ghosts>>
    /\ UNCHANGED <<chip, attached, call, packet, codec>>
    /\ UNCHANGED serial
    /\ UNCHANGED bus

\* The public call has returned to its caller.
Finish ==
    /\ pc = "done"
    /\ pc' = "idle"
    /\ top' = "none"
    /\ cmd' = "none"
    /\ cmd_code' = 0
    /\ timeout' = 0
    /\ arg' = 0
    /\ result' = Ok
    /\ written' = 0
    /\ syncOk' = FALSE
    /\ lastRead' = "none"
    /\ round' = 0
    /\ lineNo' = 0
    /\ waiting' = FALSE
    /\ syncNo' = 0
    /\ drainNo' = 0
    /\ fields' = <<>>
    /\ payload' = <<>>
    /\ packet' = <<>>
    /\ serial' = [serial EXCEPT !.calls = <<>>]
    /\ bus' = [bus EXCEPT !.emitted = {}, !.notified = {}]
    /\ UNCHANGED <<session, stack, elapsed>>
    /\ UNCHANGED <<facade, codec>>

Next ==
    \/ CallOp \/ OpStart \/ OpAfterSend
    \/ SendCommand \/ SendAfterRead
    \/ ReadDeadline \/ ReadTimeout \/ ReadIoError \/ ReadFrame
    \/ SetRomLoader
    \/ CallReset \/ Reset
    \/ ReadLine
    \/ CallSync \/ SyncStart \/ SyncAfterSend \/ SyncDrain \/ SyncAfterRead
    \/ CallConnect \/ ConnectRound \/ ConnectAfterReset \/ ConnectLine
    \/ ConnectAfterLine \/ ConnectCheck \/ ConnectSync \/ ConnectAfterSync
    \/ CallRunStub \/ StubUpload \/ StubAfterSend \/ StubHello
    \/ Finish

Spec == Init /\ [][Next]_vars

----------------------------------------------------------------------------
(* The Flasher on its own, with its chip, attach and SPI operations *)

FacadeInit == Init /\ impl = "Flasher"

FacadeNext ==
    \/ SetChip \/ CallDetectChip \/ DetectAfterRead
    \/ CallAttach \/ Attach
    \/ CallFlashId \/ FlashIdAfter
    \/ CallSpiCommand \/ SpiCommand \/ SpiAfterAttach
    \/ SpiWrite \/ SpiAfterWrite \/ SpiPoll \/ SpiAfterPoll
    \/ SpiRead \/ SpiAfterOut
    \/ OpStart \/ OpAfterSend
    \/ SendCommand \/ SendAfterRead
    \/ ReadTimeout \/ ReadIoError \/ ReadFrame
    \/ CallReset \/ Reset
    \/ Finish

FacadeSpec == FacadeInit /\ [][FacadeNext]_vars

\* The chip, attach and SPI operations of a Flasher whose thread is never
\* suspended for good: a step that can be taken is taken.
PollNext ==
    \/ SetChip
    \/ CallAttach \/ Attach
    \/ CallFlashId \/ FlashIdAfter
    \/ CallSpiCommand \/ SpiCommand \/ SpiAfterAttach
    \/ SpiWrite \/ SpiAfterWrite \/ SpiPoll \/ SpiAfterPoll
    \/ SpiRead \/ SpiAfterOut
    \/ OpStart \/ OpAfterSend
    \/ SendCommand \/ SendAfterRead
    \/ ReadTimeout \/ ReadIoError \/ ReadFrame
    \/ Finish

PollSpec == FacadeInit /\ [][PollNext]_vars /\ WF_vars(PollNext)

----------------------------------------------------------------------------
(* The serial port of Protocol and Flasher: changes of the baud rate, resets *)
(* and changes of the peer mode in any order                                 *)

PortInit == Init /\ impl \in {"Protocol", "Flasher"}

PortNext ==
    \/ CallChangeBaudRate \/ OpStart \/ OpAfterSend
    \/ SendCommand \/ SendAfterRead
    \/ ReadTimeout \/ ReadIoError \/ ReadFrame
    \/ SetRomLoader
    \/ CallReset \/ Reset
    \/ CallRunStub \/ StubUpload \/ StubAfterSend \/ StubHello
    \/ Finish

PortSpec == PortInit /\ [][PortNext]_vars

----------------------------------------------------------------------------
(* Protocol and Flasher with observers: registration, commands and resets  *)

EventInit ==
    /\ \E port \in {NewSerial, StallingSerial} : Opened(port)
    /\ impl \in {"Protocol", "Flasher"}

EventNext ==
    \/ AddObserver
    \/ CallOp \/ OpStart \/ OpAfterSend
    \/ SendCommand \/ SendAfterRead
    \/ ReadTimeout \/ ReadIoError \/ ReadFrame
    \/ CallReset \/ Reset
    \/ Finish

EventSpec == EventInit /\ [][EventNext]_vars

----------------------------------------------------------------------------
(* Protocol and Flasher on a line with late replies: single-command         *)
(* operations one after the other                                           *)

LateInit == Opened(LateSerial) /\ impl \in {"Protocol", "Flasher"}

LateNext ==
    \/ CallOp \/ OpStart \/ OpAfterSend
    \/ SendCommand \/ SendAfterRead
    \/ ReadTimeout \/ ReadIoError \/ ReadFrame
    \/ Finish

LateSpec == LateInit /\ [][LateNext]_vars

----------------------------------------------------------------------------
(* The EventProvider and an EventCollector on their own: the list behind    *)
(* Rc<RefCell<..>>, send_event observer by observer, and collect.           *)

\* The observers a list holds, and the events sent, at most.
MaxObservers == 2
MaxEvents == 2

\* The places of observer o in the list.
Places(list, o) == {k \in 1..Len(list) : list[k] = o}

\* Vec::remove(idx): the list without its element idx.
RemoveAt(list, idx) == SubSeq(list, 1, idx - 1) \o SubSeq(list, idx + 1, Len(list))

\* No step of EventProvider is taken inside another, and the program has not
\* panicked.
ProviderIdle == pc = "idle" /\ bus.fault = "none" /\ bus.at = 0

\* EventProvider::add_observer between notifications: borrow_mut and push.
\* An observer whose collector has been consumed by collect is gone.
ProviderAdd ==
    /\ ProviderIdle
    /\ Len(bus.engine) < MaxObservers
    /\ \E o \in Observers \ {bus.collected.observer} :
          bus' = [bus EXCEPT !.engine = Append(@, o)]
    /\ UNCHANGED <<session, pc, stack, top, cmd, cmd_code, timeout, elapsed,
                   connectLocals, drainNo, arg, result, ghosts>>
    /\ UNCHANGED <<facade, call, packet, codec, serial>>

\* EventProvider::remove_observer between notifications: borrow_mut, then
\* the first place of the observer is removed, if there is one.
ProviderRemove ==
    /\ ProviderIdle
    /\ \E o \in Observers :
          /\ Places(bus.engine, o) # {}
          /\ bus' = [bus EXCEPT !.engine =
                        RemoveAt(@, CHOOSE k \in Places(@, o) :
                                        \A j \in Places(@, o) : k <= j)]
    /\ UNCHANGED <<session, pc, stack, top, cmd, cmd_code, timeout, elapsed,
                   connectLocals, drainNo, arg, result, ghosts>>
    /\ UNCHANGED <<facade, call, packet, codec, serial>>

\* EventProvider::send_event: self.observers.borrow() is taken for the whole
\* loop over the list.
SendEvent ==
    /\ ProviderIdle
    /\ bus.sent < MaxEvents
    /\ bus' = [bus EXCEPT !.sent = @ + 1,
                          !.at = 1,
                          !.due = [o \in Observers |->
                                      IF Places(bus.engine, o) # {}
                                      THEN Append(@[o], bus.sent + 1) ELSE @[o]]]
    /\ UNCHANGED <<session, pc, stack, top, cmd, cmd_code, timeout, elapsed,
                   connectLocals, drainNo, arg, result, ghosts>>
    /\ UNCHANGED <<facade, call, packet, codec, serial>>

\* One turn of send_event's loop: observer.notify(now, &event), here
\* EventCollectorObserver::notify, which pushes the event.
Notify ==
    /\ pc = "idle" /\ bus.fault = "none"
    /\ bus.at \in 1..Len(bus.engine)
    /\ bus' = [bus EXCEPT !.seen[bus.engine[bus.at]] = Append(@, bus.sent),
                          !.at = @ + 1]
    /\ UNCHANGED <<session, pc, stack, top, cmd, cmd_code, timeout, elapsed,
                   connectLocals, drainNo, arg, result, ghosts>>
    /\ UNCHANGED <<facade, call, packet, codec, serial>>

\* One turn of send_event's loop in which notify calls add_observer or
\* remove_observer on the provider or a clone of it: borrow_mut() on the
\* RefCell that send_event holds borrowed panics ("already borrowed").
NotifyChangesList ==
    /\ pc = "idle" /\ bus.fault = "none"
    /\ bus.at \in 1..Len(bus.engine)
    /\ bus' = [bus EXCEPT !.fault = "already_borrowed"]
    /\ UNCHANGED <<session, pc, stack, top, cmd, cmd_code, timeout, elapsed,
                   connectLocals, drainNo, arg, result, ghosts>>
    /\ UNCHANGED <<facade, call, packet, codec, serial>>

\* send_event's loop has ended: the borrow is released.
SendDone ==
    /\ pc = "idle" /\ bus.fault = "none"
    /\ bus.at = Len(bus.engine) + 1
    /\ bus' = [bus EXCEPT !.at = 0]
    /\ UNCHANGED <<session, pc, stack, top, cmd, cmd_code, timeout, elapsed,
                   connectLocals, drainNo, arg, result, ghosts>>
    /\ UNCHANGED <<facade, call, packet, codec, serial>>

\* EventCollector::collect of the collector whose observer is o:
\* Rc::try_unwrap(self.observer).expect(..) gives the vector when the
\* collector holds the only Rc, and panics while the provider's list holds
\* another.
Collect ==
    /\ ProviderIdle
    /\ bus.collected = NoCollect
    /\ \E o \in Observers :
          bus' = IF Places(bus.engine, o) # {}
                 THEN [bus EXCEPT !.fault = "collect_failed"]
                 ELSE [bus EXCEPT !.collected =
                          [observer |-> o, events |-> bus.seen[o], due |-> bus.due[o]]]
    /\ UNCHANGED <<session, pc, stack, top, cmd, cmd_code, timeout, elapsed,
                   connectLocals, drainNo, arg, result, ghosts>>
    /\ UNCHANGED <<facade, call, packet, codec, serial>>

ProviderInit == Init /\ impl = "Protocol"

ProviderNext ==
    \/ ProviderAdd
    \/ ProviderRemove
    \/ SendEvent
    \/ Notify
    \/ NotifyChangesList
    \/ SendDone
    \/ Collect

ProviderSpec == ProviderInit /\ [][ProviderNext]_vars

----------------------------------------------------------------------------
(* The codec on its own: the encoders and the response reader applied to    *)
(* inputs drawn from bounded sets.                                          *)

SeqsUpTo(B, n) == UNION {[1..k -> B] : k \in 0..n}

CodecWords == {0, CHIP_MAGIC_REG, -1}
CodecPayloads == SeqsUpTo({0, 239, 255}, MaxPayload)
CodecData == SeqsUpTo({1, 17}, MaxData)

\* The arguments the operation that sends command c can be called with; for
\* a command no operation sends, the fields of the Command itself.
CodecArgs(i, c) ==
    CASE c \in {"FlashBegin", "MemBegin", "FlashDeflBegin", "ReadFlash"} ->
             {[a |-> <<w1, w2, w3, w4>>, data |-> <<>>] :
                  w1 \in CodecWords, w2 \in CodecWords, w3 \in {0, 1024},
                  w4 \in CodecWords}
      [] c \in DataCommands ->
             {[a |-> <<w>>, data |-> d] : w \in CodecWords, d \in CodecPayloads}
      [] c \in {"FlashEnd", "FlashDeflEnd"} ->
             {[a |-> <<b>>, data |-> <<>>] : b \in BOOLEAN}
      [] c = "MemEnd" ->
             {[a |-> <<b, w>>, data |-> <<>>] : b \in BOOLEAN, w \in CodecWords}
      [] c = "WriteReg" ->
             {[a |-> (IF i = "Protocol" THEN <<w1, w2>> ELSE <<w1, w2, -1, 0>>),
               data |-> <<>>] : w1 \in CodecWords, w2 \in CodecWords}
      [] c \in {"ReadReg", "SpiSetParams"} ->
             {[a |-> <<w>>, data |-> <<>>] : w \in CodecWords}
      [] c = "ChangeBaudRate" -> {[a |-> <<r>>, data |-> <<>>] : r \in Rates}
      [] c \in {"SpiFlashMD5", "EraseRegion"} ->
             {[a |-> <<w1, w2>>, data |-> <<>>] :
                  w1 \in CodecWords, w2 \in CodecWords}
      [] OTHER -> {[a |-> <<>>, data |-> <<>>]}

\* A ResponsePacket value.
ResponsePacket(c, value, data, status, error, reserved) ==
    [cmd_code |-> c, value |-> value, data |-> data, status |-> status,
     error |-> error, reserved |-> reserved]

\* The ResponsePacket values the target writes.
CodecPackets ==
    {ResponsePacket(c, v, d, st, e, r) :
         c \in {FlashBegin, SpiFlashMD5}, v \in {0, 305419896, -1},
         d \in CodecData, st \in 0..2, e \in {0, 5}, r \in {<<>>, <<0, 0>>}}

\* Response frames of every body length up to MaxData + 4, and the two
\* digests.
CodecFrames(c) ==
    {MkResponse(e, 0, d, st, 5, t) :
         e \in {c, OtherCode(c)}, d \in CodecData \cup {Md5Raw, Md5Hex},
         st \in {0, 1}, t \in Trailers}

\* An EspImageSegment value.
EspImageSegment(load_addr, data) == [load_addr |-> load_addr, data |-> data]

\* The segment written with its length field counting the two header words.
EspImageSegmentWriteCountsHeader(seg) ==
    to_le32(seg.load_addr) \o to_le32(Len(seg.data) + 8) \o seg.data

\* EspImageSegment's BinWrite: load_addr, data_len calculated as data.len(),
\* data, little-endian.
EspImageSegmentWrite(seg) ==
    to_le32(seg.load_addr) \o to_le32(Len(seg.data)) \o seg.data

\* EspImageSegment's BinRead on the bytes b: load_addr, the temporary
\* data_len, then data_len bytes of data; it fails when b ends before that.
EspImageSegmentRead(b) ==
    IF Len(b) < 8
    THEN [ok |-> FALSE]
    ELSE LET data_len == from_le32(b, 5)
         IN IF data_len < 0 \/ data_len > Len(b) - 8
            THEN [ok |-> FALSE]
            ELSE [ok |-> TRUE,
                  segment |-> EspImageSegment(from_le32(b, 1),
                                              Slice(b, 9, 8 + data_len))]

\* The segments of the model: up to MaxSegment bytes out of three values,
\* and the five bytes of the crate's own test, at four load addresses.
MaxSegment == 3

SegmentData ==
    UNION {[1..n -> {0, 1, 255}] : n \in 0..MaxSegment} \cup {<<0, 1, 2, 3, 4>>}

Segments ==
    {EspImageSegment(a, d) :
         a \in {0, CHIP_MAGIC_REG, -1, U32(170, 187, 204, 221)}, d \in SegmentData}

\* Digests a target can report.
Md5Digests ==
    {Md5Raw, [i \in 1..16 |-> 0], [i \in 1..16 |-> 255],
     [i \in 1..16 |-> (i * 37 + 171) % 256]}

\* The hex digit of n in the given case.
HexCharCase(n, upper) == IF n < 10 THEN 48 + n ELSE (IF upper THEN 55 ELSE 87) + n

\* The 32 hex digits of digest d: lower case, upper case, or upper and lower
\* in turn.
Md5HexCase(d, case) ==
    [i \in 1..32 |->
        HexCharCase(IF i % 2 = 1 THEN d[(i + 1) \div 2] \div 16 ELSE d[i \div 2] % 16,
                    case = "upper" \/ (case = "mixed" /\ i % 4 < 2))]

\* The data fields spi_flash_md5 can be handed: a digest raw or in hex, hex
\* strings a digit short or long, raw digests a byte short or long, nothing,
\* and 32 bytes of which the first or the last is no hex digit.
Md5Inputs ==
    {[digest |-> d, data |-> Md5HexCase(d, k)] :
         d \in Md5Digests, k \in {"lower", "upper", "mixed"}}
    \cup {[digest |-> d, data |-> d] : d \in Md5Digests}
    \cup {[digest |-> <<>>, data |-> x] :
             x \in {<<>>, Slice(Md5Raw, 1, 15), Md5Raw \o <<0>>,
                    Slice(Md5Hex, 1, 31), Md5Hex \o <<48>>}}
    \cup {[digest |-> <<>>, data |-> [Md5Hex EXCEPT ![at] = x]] :
             at \in {1, 32}, x \in {0, 47, 58, 64, 71, 96, 103, 255}}

\* SLIP (RFC 1055): the frame delimiter, the escape, and the escaped forms
\* of the two.
SLIP_END == 192
SLIP_ESC == 219
SLIP_ESC_END == 220
SLIP_ESC_ESC == 221

RECURSIVE SlipEscaped(_)
\* The payload with its delimiter and escape bytes escaped.
SlipEscaped(data) ==
    IF data = <<>> THEN <<>>
    ELSE (IF Head(data) = SLIP_END THEN <<SLIP_ESC, SLIP_ESC_END>>
          ELSE IF Head(data) = SLIP_ESC THEN <<SLIP_ESC, SLIP_ESC_ESC>>
          ELSE <<Head(data)>>) \o SlipEscaped(Tail(data))

\* SlipEncoder::new(true).encode(data, output): a leading delimiter, the
\* escaped payload, a trailing delimiter.
SlipEncode(data) == <<SLIP_END>> \o SlipEscaped(data) \o <<SLIP_END>>

\* SlipDecoder::new().
NewDecoder == [state |-> "Normal", count |-> 0, open |-> FALSE]

\* What a decoder does with a delimiter that closes no data byte.  The
\* decoder is not part of the repository; both behaviours are kept:
\* "ignored" takes every such delimiter for an idle byte, "yielded" takes the
\* first for the start of a frame and the next for the end of an empty one.
EmptyFrames == {"ignored", "yielded"}

RECURSIVE SlipDecode(_, _, _, _, _)
\* SlipDecoder::decode(source, sink) from byte at of source on: the bytes go
\* to the sink until the frame ends ("ok"), the source ends ("eos") or an
\* escape is invalid ("framing"); at is the number of bytes consumed plus one.
SlipDecode(e, dec, source, at, sink) ==
    IF at > Len(source)
    THEN [status |-> "eos", dec |-> dec, sink |-> sink, at |-> at]
    ELSE LET value == source[at]
             push(v) == SlipDecode(e, [state |-> "Normal", count |-> dec.count + 1,
                                       open |-> TRUE],
                                   source, at + 1, Append(sink, v))
         IN CASE dec.state = "Normal" ->
                   IF value = SLIP_END
                   THEN IF dec.count > 0 \/ (e = "yielded" /\ dec.open)
                        THEN [status |-> "ok", dec |-> NewDecoder, sink |-> sink,
                              at |-> at + 1]
                        ELSE SlipDecode(e, [dec EXCEPT !.open = (e = "yielded")],
                                        source, at + 1, sink)
                   ELSE IF value = SLIP_ESC
                   THEN SlipDecode(e, [dec EXCEPT !.state = "Escape"], source,
                                   at + 1, sink)
                   ELSE push(value)
              [] dec.state = "Escape" ->
                   IF value = SLIP_ESC_END THEN push(SLIP_END)
                   ELSE IF value = SLIP_ESC_ESC THEN push(SLIP_ESC)
                   ELSE [status |-> "framing", dec |-> [dec EXCEPT !.state = "Error"],
                         sink |-> sink, at |-> at + 1]
              [] OTHER ->
                   SlipDecode(e, IF value = SLIP_END THEN NewDecoder ELSE dec,
                              source, at + 1, sink)

\* What read_packet returns.
Packet(kind, frame) == [kind |-> kind, frame |-> frame]

RECURSIVE Flatten(_)
Flatten(reads) == IF reads = <<>> THEN <<>> ELSE Head(reads) \o Flatten(Tail(reads))

\* Protocol::read_packet: one decode over the buffered port, which reads on
\* until the frame ends; when the target sends no more, the read times out.
ProtocolReadPacket(e, reads) ==
    LET d == SlipDecode(e, NewDecoder, Flatten(reads), 1, <<>>)
    IN CASE d.status = "ok" -> Packet("ok", d.sink)
         [] d.status = "eos" -> Packet("timeout", <<>>)
         [] OTHER -> Packet("io", <<>>)

RECURSIVE FlasherReadPacket(_, _, _, _, _)
\* Flasher::read_packet: the loop that fills the empty buffer with one serial
\* read, decodes from it with the same decoder and response, drains what a
\* complete frame consumed, and clears the buffer when the frame is not
\* complete yet.
FlasherReadPacket(e, dec, sink, buffer, reads) ==
    IF buffer = <<>> /\ reads = <<>>
    THEN Packet("timeout", <<>>)
    ELSE LET filled == IF buffer = <<>> THEN Head(reads) ELSE buffer
             rest == IF buffer = <<>> THEN Tail(reads) ELSE reads
             d == SlipDecode(e, dec, filled, 1, sink)
         IN CASE d.status = "ok" -> Packet("ok", d.sink)
              [] d.status = "eos" -> FlasherReadPacket(e, d.dec, d.sink, <<>>, rest)
              [] OTHER -> Packet("panic", <<>>)

ReadPacket(i, e, reads) ==
    IF i = "Flasher" THEN FlasherReadPacket(e, NewDecoder, <<>>, <<>>, reads)
    ELSE ProtocolReadPacket(e, reads)

\* The payloads framed: up to MaxSlip bytes, each the delimiter, the escape,
\* an escaped form or a plain byte.
MaxSlip == 2
SlipBytes == {SLIP_END, SLIP_ESC, SLIP_ESC_END, 1}
SlipPayloads == UNION {[1..n -> SlipBytes] : n \in 0..MaxSlip}

\* The idle delimiters the line carries before the frame.
MaxStray == 2

\* The wire cut into serial reads after its bytes c1 and c2; empty reads
\* do not happen.
SerialReads(wire, c1, c2) ==
    SelectSeq(<<Slice(wire, 1, c1), Slice(wire, c1 + 1, c2), Slice(wire, c2 + 1, Len(wire))>>,
              LAMBDA r : r # <<>>)

\* A u32 as its two 16-bit halves <<high, low>>, for the arithmetic that
\* reaches 2^32.
HALF == 65536
Wide(n) == <<n \div HALF, n % HALF>>
WideMax == <<HALF - 1, HALF - 1>>
WideLess(a, b) == a[1] < b[1] \/ (a[1] = b[1] /\ a[2] < b[2])
WideMin(a, b) == IF WideLess(a, b) THEN a ELSE b

\* a + b on u32: the sum modulo 2^32 and whether it overflowed.
WideAdd(a, b) ==
    LET low == a[2] + b[2]
        high == a[1] + b[1] + low \div HALF
    IN [v |-> <<high % HALF, low % HALF>>, overflow |-> high >= HALF]

\* a - 1 on u32: the difference modulo 2^32 and whether it overflowed.
WideDec(a) ==
    IF a = <<0, 0>> THEN [v |-> WideMax, overflow |-> TRUE]
    ELSE [v |-> IF a[2] = 0 THEN <<a[1] - 1, HALF - 1>> ELSE <<a[1], a[2] - 1>>,
          overflow |-> FALSE]

\* a / d on u32 for a divisor 0 < d below 2^15, by long division.
WideDiv(a, d) ==
    LET rest == (a[1] % d) * HALF + a[2]
    IN WideAdd(<<a[1] \div d, 0>>, Wide(rest \div d)).v

\* d * n on u32 for d below 2^15: the product modulo 2^32 and whether it
\* overflowed.
WideTimes(d, n) ==
    LET low == d * n[2]
        high == d * n[1] + low \div HALF
    IN [v |-> <<high % HALF, low % HALF>>, overflow |-> high >= HALF]

\* What a constructor of Command returns, or the panic it ends in.
Built(kind, total_size, num_packets, packet_size) ==
    [kind |-> kind, total_size |-> total_size, num_packets |-> num_packets,
     packet_size |-> packet_size]

\* The largest packet the constructor asks for (0x4000).
MEM_PACKET == 16384

\* Command::mem_begin(mem_offset, total_size), and Command::flash_begin, which
\* is the same code: packet_size = min(total_size, 0x4000) and num_packets =
\* (total_size + packet_size - 1) / packet_size in u32.  An overflow panics
\* in a build with overflow checks and wraps in one without; a division by
\* zero panics in both.  The peer mode is no argument.
mem_begin(total_size, rom_loader, overflow_checks) ==
    LET packet_size == WideMin(total_size, Wide(MEM_PACKET))
        sum == WideAdd(total_size, packet_size)
        less == WideDec(sum.v)
    IN IF overflow_checks /\ (sum.overflow \/ less.overflow)
       THEN Built("panic", total_size, <<0, 0>>, packet_size)
       ELSE IF packet_size = <<0, 0>>
       THEN Built("panic", total_size, <<0, 0>>, packet_size)
       ELSE Built("ok", total_size, WideDiv(less.v, packet_size[2]), packet_size)

\* The sizes a RAM upload is begun with: nothing, one byte, the sizes around
\* the stub's and the ROM loader's packet, several packets, and the sizes
\* from which the sum passes 2^32.
TotalSizes ==
    {Wide(n) : n \in {0, 1, 6143, 6144, 6145, 16383, 16384, 16385, 32768, 32769}}
        \cup {<<32768, 0>>, <<HALF - 1, HALF - 16384>>, <<HALF - 1, HALF - 16383>>,
              WideMax}

CodecInit ==
    /\ stack = <<>>
    /\ top = "none"
    /\ timeout = 0
    /\ elapsed = 0
    /\ round = 0
    /\ lineNo = 0
    /\ waiting = FALSE
    /\ syncNo = 0
    /\ drainNo = 0
    /\ result = Ok
    /\ chip = "None"
    /\ attached = FALSE
    /\ spi = NoSpi
    /\ packet = <<>>
    /\ parsed = NoPacket
    /\ serial = NewSerial
    /\ bus = NewBus
    /\ written = 0
    /\ syncOk = FALSE
    /\ lastRead = "none"
    /\ \/ \* a command to encode
          /\ pc = "codec_encode"
          /\ impl \in Impls
          /\ \E c \in EncodedBy(impl), rom_loader \in BOOLEAN :
                \E x \in CodecArgs(impl, c),
                   old_rate \in PortRates(c = "ChangeBaudRate" /\ ~rom_loader) :
                    /\ cmd = c
                    /\ is_rom_loader = rom_loader
                    /\ arg = [a |-> x.a, old_rate |-> old_rate]
                    /\ fields = CommandOf(impl, c, x.a, x.data, rom_loader, old_rate)
                    /\ payload = x.data
          /\ cmd_code = 0
          /\ status_size = 0
          /\ response = <<>>
       \/ \* a ResponsePacket to write and read back
          /\ pc = "codec_write"
          /\ impl = "Protocol"
          /\ arg \in CodecPackets
          /\ cmd = "none"
          /\ is_rom_loader = TRUE
          /\ fields = <<>>
          /\ payload = <<>>
          /\ cmd_code = 0
          /\ status_size = 0
          /\ response = <<>>
       \/ \* a frame handed to read_response while a command is outstanding
          /\ pc = "codec_judge"
          /\ impl \in Impls
          /\ \E c \in {"FlashBegin", "SpiFlashMD5"} :
                /\ cmd = c
                /\ cmd_code = code(c)
                /\ response \in CodecFrames(code(c))
          /\ is_rom_loader \in BOOLEAN
          /\ status_size \in (IF impl = "Flasher" THEN {0, 2, 4} ELSE {0})
          /\ arg = 0
          /\ fields = <<>>
          /\ payload = <<>>
       \/ \* an image segment to write and read back, alone or followed by
          \* the bytes of the next segment
          /\ pc = "codec_segment"
          /\ impl = "Protocol"
          /\ cmd = "none"
          /\ cmd_code = 0
          /\ is_rom_loader = TRUE
          /\ arg \in Segments
          /\ status_size = 0
          /\ response = <<>>
          /\ fields = <<>>
          /\ payload \in {<<>>, <<0, 0, 0, 64, 1, 0, 0, 0, 7>>}
       \/ \* a payload to frame and to read back, after idle delimiters and
          \* cut into serial reads
          /\ pc = "codec_slip"
          /\ impl \in {"Protocol", "Flasher"}
          /\ cmd = "none"
          /\ cmd_code = 0
          /\ is_rom_loader = TRUE
          /\ payload \in SlipPayloads
          /\ \E stray \in 0..MaxStray, e \in EmptyFrames :
                \E c2 \in 0..(stray + Len(SlipEncode(payload))) : \E c1 \in 0..c2 :
                    arg = [stray |-> stray, empty_frames |-> e, c1 |-> c1, c2 |-> c2]
          /\ status_size = 0
          /\ response = <<>>
          /\ fields = <<>>
       \/ \* a total size to begin a RAM upload or a flash write with
          /\ pc = "codec_begin"
          /\ impl \in {"Protocol", "Flasher"}
          /\ cmd \in {"MemBegin", "FlashBegin"}
          /\ cmd_code = code(cmd)
          /\ is_rom_loader \in BOOLEAN
          /\ \E t \in TotalSizes, checks \in BOOLEAN :
                arg = [total_size |-> t, overflow_checks |-> checks]
          /\ status_size = 0
          /\ response = <<>>
          /\ fields = <<>>
          /\ payload = <<>>
       \/ \* the data of a SpiFlashMD5 response handed to spi_flash_md5
          /\ pc = "codec_md5"
          /\ impl \in {"Protocol", "Flasher"}
          /\ cmd = "SpiFlashMD5"
          /\ cmd_code = code("SpiFlashMD5")
          /\ is_rom_loader \in BOOLEAN
          /\ arg \in Md5Inputs
          /\ status_size = 0
          /\ response = <<>>
          /\ fields = <<>>
          /\ payload = <<>>

\* send_command_with_data builds the packet.
CodecEncode ==
    /\ pc = "codec_encode"
    /\ packet' = Encode(impl, cmd, fields, payload, is_rom_loader,
                         arg.old_rate)
    /\ pc' = "encoded"
    /\ UNCHANGED <<session, stack, top, cmd, cmd_code, timeout, elapsed,
                   connectLocals, drainNo, arg, result, ghosts, facade, call,
                   codec>>
    /\ UNCHANGED serial
    /\ UNCHANGED bus

\* The target writes a ResponsePacket.
CodecWrite ==
    /\ pc = "codec_write"
    /\ response' = ResponsePacketWrite(arg.cmd_code, arg.value, arg.data,
                                       arg.status, arg.error, arg.reserved)
    /\ pc' = "codec_read"
    /\ UNCHANGED <<session, stack, top, cmd, cmd_code, timeout, elapsed,
                   connectLocals, drainNo, arg, result, ghosts, facade, call,
                   packet, parsed>>
    /\ UNCHANGED serial
    /\ UNCHANGED bus

\* ResponsePacket::read on the frame written.
CodecRead ==
    /\ pc = "codec_read"
    /\ parsed' = ResponsePacketRead(response)
    /\ pc' = "parsed"
    /\ UNCHANGED <<session, stack, top, cmd, cmd_code, timeout, elapsed,
                   connectLocals, drainNo, arg, result, ghosts, facade, call,
                   packet, response>>
    /\ UNCHANGED serial
    /\ UNCHANGED bus

\* One iteration of read_response on the frame.
CodecJudge ==
    /\ pc = "codec_judge"
    /\ parsed' = Process(impl, response, cmd_code, is_rom_loader, status_size)
    /\ pc' = "judged"
    /\ UNCHANGED <<session, stack, top, cmd, cmd_code, timeout, elapsed,
                   connectLocals, drainNo, arg, result, ghosts, facade, call,
                   packet, response>>
    /\ UNCHANGED serial
    /\ UNCHANGED bus

\* The command is built for the total size.
CodecBegin ==
    /\ pc = "codec_begin"
    /\ parsed' = mem_begin(arg.total_size, is_rom_loader, arg.overflow_checks)
    /\ pc' = "begin_built"
    /\ UNCHANGED <<session, stack, top, cmd, cmd_code, timeout, elapsed,
                   connectLocals, drainNo, arg, result, ghosts, facade, call,
                   packet, response>>
    /\ UNCHANGED serial
    /\ UNCHANGED bus

\* spi_flash_md5 after its send_command has returned the data.
CodecMd5 ==
    /\ pc = "codec_md5"
    /\ result' = Md5Decode(OkValue(0, arg.data, <<>>), is_rom_loader)
    /\ pc' = "md5_decoded"
    /\ UNCHANGED <<session, stack, top, cmd, cmd_code, timeout, elapsed,
                   connectLocals, drainNo, arg, ghosts, facade, call, packet,
                   codec>>
    /\ UNCHANGED serial
    /\ UNCHANGED bus

\* The segment is written to the image.
CodecSegmentWrite ==
    /\ pc = "codec_segment"
    /\ response' = EspImageSegmentWrite(arg) \o payload
    /\ pc' = "segment_written"
    /\ UNCHANGED <<session, stack, top, cmd, cmd_code, timeout, elapsed,
                   connectLocals, drainNo, arg, result, ghosts, facade, call,
                   packet, parsed>>
    /\ UNCHANGED serial
    /\ UNCHANGED bus

\* The segment is read from the image.
CodecSegmentRead ==
    /\ pc = "segment_written"
    /\ parsed' = EspImageSegmentRead(response)
    /\ pc' = "segment_read"
    /\ UNCHANGED <<session, stack, top, cmd, cmd_code, timeout, elapsed,
                   connectLocals, drainNo, arg, result, ghosts, facade, call,
                   packet, response>>
    /\ UNCHANGED serial
    /\ UNCHANGED bus

\* send_packet frames the payload; the line carries it after the idle
\* delimiters.
CodecSlipSend ==
    /\ pc = "codec_slip"
    /\ packet' = SlipEncode(payload)
    /\ response' = [k \in 1..arg.stray |-> SLIP_END] \o SlipEncode(payload)
    /\ pc' = "slip_sent"
    /\ UNCHANGED <<impl, is_rom_loader, status_size, fields, payload, parsed>>
    /\ UNCHANGED <<stack, top, cmd, cmd_code, timeout, elapsed,
                   connectLocals, drainNo, arg, result, ghosts, facade>>
    /\ UNCHANGED serial
    /\ UNCHANGED bus

\* read_packet reads the line, cut into serial reads.
CodecSlipRead ==
    /\ pc = "slip_sent"
    /\ parsed' = ReadPacket(impl, arg.empty_frames, SerialReads(response, arg.c1, arg.c2))
    /\ pc' = "slip_read"
    /\ UNCHANGED <<session, stack, top, cmd, cmd_code, timeout, elapsed,
                   connectLocals, drainNo, arg, result, ghosts, facade, call,
                   packet, response>>
    /\ UNCHANGED serial
    /\ UNCHANGED bus

CodecNext ==
    \/ CodecEncode
    \/ CodecWrite
    \/ CodecRead
    \/ CodecJudge
    \/ CodecMd5
    \/ CodecSegmentWrite
    \/ CodecSegmentRead
    \/ CodecSlipSend
    \/ CodecSlipRead
    \/ CodecBegin

CodecSpec == CodecInit /\ [][CodecNext]_vars

----------------------------------------------------------------------------
(* Properties *)

\* Where read_response has just returned to its caller.
ReadReturnLabels == {"send_after_read", "sync_after_read"}

\* The engines of crate::command: Protocol and Flasher.
CommandEngines == {"Protocol", "Flasher"}

\* C1: in Protocol and Flasher, a (value, data) result or a command error
\* that read_response hands back comes from a received response frame whose
\* opcode echo equals the opcode sent, and a well-formed response echoing
\* another opcode never ends the read: it is dropped and reading continues.
C1_ResultEchoesSentOpcode ==
    impl \in CommandEngines =>
        /\ (pc \in ReadReturnLabels /\ result.kind \in {"ok", "command"}) =>
               /\ lastRead = "reply"
               /\ Len(result.frame) >= 2
               /\ result.frame[1] = 1
               /\ result.frame[2] = cmd_code
        /\ lastRead = "chatter" => pc = "read_response"

\* A response echoing another opcode has been delivered and dropped, and the
\* engine is still reading.
C1_Witness ==
    /\ impl \in CommandEngines
    /\ pc = "read_response"
    /\ lastRead = "chatter"
    /\ top \in ProtocolOps

\* C2: once the command deadline has elapsed, read_response reads no further
\* frame: its next step hands the timeout back, also when the target keeps
\* sending frames that echo other opcodes or do not decode.
C2_DeadlineEndsRead ==
    [][(pc = "read_response" /\ elapsed > timeout) => pc' # "read_response"]_vars

\* The error byte <-> kind table of the specification's section 6.
Section6Table ==
    <<<<5, "ReceivedMessageInvalid">>, <<6, "FailedToActOnMessage">>,
      <<7, "InvalidCrc">>, <<8, "FlashWriteError">>, <<9, "FlashReadError">>,
      <<10, "FlashReadLengthError">>, <<11, "DeflateError">>,
      <<192, "BadDataLen">>, <<193, "BadDataChecksum">>, <<194, "BadBlocksize">>,
      <<195, "InvalidCommand">>, <<196, "FailedSpiOp">>, <<197, "FailedSpiUnlock">>,
      <<198, "NotInFlashMode">>, <<199, "InflateError">>, <<200, "NotEnoughData">>,
      <<201, "TooMuchData">>, <<255, "CommandNotImplemented">>>>

Section6Kind(b) ==
    IF \E i \in 1..Len(Section6Table) : Section6Table[i][1] = b
    THEN Section6Table[CHOOSE i \in 1..Len(Section6Table) : Section6Table[i][1] = b][2]
    ELSE "UnknownErrorCode"

\* The response data the target sends for an opcode.
ReplyData(c) == IF c = SpiFlashMD5 THEN {<<>>, Md5Hex, Md5Raw} ELSE {<<>>}

\* What the specification asks of a matching response with these fields.
Section6Outcome(st, e, v, data, f) ==
    IF st = 0 THEN OkValue(v, data, f)
    ELSE IF st = 1 THEN ErrCommand(Section6Kind(e), f)
    ELSE ErrCommand("InvalidResponse", f)

BannerInHand == ~is_err(result) /\ result.data = Banner

\* C4: connect counts the banner as seen only on a line exactly equal to
\* "waiting for download\r\n" - never on a line read that timed out or gave
\* other text - and sends a Sync only once the banner counts as seen.
C4_BannerBeforeSync ==
    [][/\ (pc = "connect_after_line" /\ ~waiting /\ waiting') => BannerInHand
       /\ (top = "connect" /\ written' > written) => waiting]_vars

\* C5: connect returns success only if one of its Sync commands got a
\* successful Sync response; if every attempt timed out it returns an error.
C5_SuccessNeedsSyncResponse ==
    (pc = "done" /\ top = "connect" /\ result.kind = "ok") => syncOk

\* C6: connect makes at most ten rounds, at most ten line reads in a round
\* and at most ten Sync attempts, and when it leaves the line loops without
\* the banner in hand it returns a timeout error and has sent no Sync.
C6_ConnectBounded ==
    /\ [](round <= 10 /\ lineNo <= 10 /\ syncNo <= 10)
    /\ [][(pc = "connect_check" /\ ~BannerInHand)
            => (pc' = "done" /\ is_timeout(result') /\ written' = 0)]_vars

\* A step by which sync hands success back to its caller.
SyncReturnsOk ==
    /\ pc \in {"sync_after_send", "sync_drain", "sync_after_read"}
    /\ pc' \in {"connect_after_sync", "done"}
    /\ result'.kind = "ok"

\* C7: whenever sync returns success, the last response read it attempted
\* ended in a timeout, however many Sync responses the target sends.
C7_SuccessAfterTimeout ==
    [][SyncReturnsOk => lastRead = "timeout"]_vars

\* C8: in every sync implementation, an error that is no timeout, met while
\* sending Sync or draining its responses, ends sync - and then connect -
\* with that error.
C8_OtherErrorsEndHandshake ==
    [][(/\ pc \in {"sync_after_send", "sync_after_read", "connect_after_sync"}
        /\ is_err(result)
        /\ ~is_timeout(result))
          => (pc' = Head(stack) /\ stack' = Tail(stack) /\ result' = result)]_vars

\* Where a call made by an operation has just returned.
AfterLabels ==
    {"send_after_read", "op_after_send", "sync_after_send", "sync_after_read",
     "connect_after_reset", "connect_after_line", "connect_after_sync",
     "stub_after_send"}

\* The step hands the callee's result back to the caller unchanged.
Propagated == pc' = Head(stack) /\ stack' = Tail(stack) /\ result' = result

\* The step swallows a timeout its callee returned.
AbsorbsTimeout == pc \in AfterLabels /\ is_timeout(result) /\ ~Propagated

\* A single-command operation has written one frame, or none when the local
\* port failed.
OneFramePerCall ==
    (pc = "done" /\ top \in ProtocolOps) =>
        (written <= 1 /\ (result.kind # "io" => written = 1))

\* A single-command operation hands every error back unchanged.
OpsPropagate ==
    (pc \in {"op_after_send", "send_after_read"} /\ is_err(result)) => Propagated

C10_ResetMeansRom ==
    (pc = "connect_after_reset" \/ (pc = "done" /\ top = "reset")) => is_rom_loader

\* C11: the peer-mode flag goes from ROM to stub only in the step of a stub
\* activation that has read the OHAI frame and succeeds; no other operation
\* of an engine sets it to stub.
C11_StubOnlyByActivation ==
    [][(is_rom_loader /\ ~is_rom_loader')
           => (pc = "stub_hello" /\ result'.kind = "ok")]_vars

\* C12: when attach (or spi_attach) has returned success, the attached flag
\* is true, whatever the chip.
C12_AttachSetsFlag ==
    (impl = "Flasher" /\ pc = "done" /\ top \in {"attach", "SpiAttach"}
         /\ ~is_err(result))
        => attached

\* An attach command: SpiAttach, or FlashBegin(0, 0, 0, 0) on the ESP8266.
AttachCommand ==
    \/ cmd = "SpiAttach"
    \/ cmd = "FlashBegin" /\ chip = "Esp8266" /\ fields = <<0, 0, 0, 0>>

\* C13: the attached flag becomes true only when an attach command has
\* completed with status 0, and a reset does not leave it true.
C13_AttachedSinceReset ==
    [][/\ (~attached /\ attached')
              => (pc = "op_after_send" /\ AttachCommand /\ ~is_err(result))
       /\ pc = "reset" => ~attached']_vars

\* C14: with the ESP8266 recorded, attach, flash_id and spi_command never
\* send a SpiAttach; attach sends FlashBegin(0, 0, 0, 0) on the ESP8266 and
\* SpiAttach with pins = 0 on every other chip.
C14_Esp8266NeverSpiAttach ==
    [][(impl = "Flasher" /\ pc = "send_command"
            /\ top \in {"attach", "flash_id", "spi_command"})
           => /\ chip = "Esp8266" => packet'[2] # SpiAttach
              /\ top = "attach"
                     => IF chip = "Esp8266"
                        THEN /\ packet'[2] = FlashBegin
                             /\ Slice(packet', 9, Len(packet')) = Zeros(16)
                        ELSE /\ packet'[2] = SpiAttach
                             /\ Slice(packet', 9, 12) = Zeros(4)]_vars

\* The chip table: the magic values of register 0x40001000 and their chips.
MagicTable ==
    {<<U32(255, 240, 193, 1), "Esp8266">>, <<U32(0, 240, 29, 131), "Esp32">>,
     <<U32(0, 0, 7, 198), "Esp32S2">>, <<U32(105, 33, 80, 111), "Esp32C3">>,
     <<U32(27, 49, 80, 111), "Esp32C3">>, <<U32(0, 0, 0, 9), "Esp32S3">>}

InMagicTable(m) == \E e \in MagicTable : e[1] = m

ChipOfMagic(m) == (CHOOSE e \in MagicTable : e[1] = m)[2]

\* The packet of ReadReg(0x40001000) with a zero checksum field.
ReadMagicPacket == <<0, ReadReg, 4, 0, 0, 0, 0, 0, 0, 16, 0, 64>>

\* detect_chip sends nothing but one ReadReg of 0x40001000 (nothing at all
\* when the local port fails on the write).
DetectSendsOneReadReg ==
    /\ pc = "send_command" => (written = 0 /\ packet' = ReadMagicPacket)
    /\ pc = "done" => (written <= 1 /\ (written = 0 => result.kind = "io"))

\* detect_chip with the value in hand: a table magic records and returns its
\* chip (the ESP32-C3 with the SPI bank at 0x60002000); any other value fails
\* with UnknownDevice and the step leaves the chip and the status width.
DetectLooksUp ==
    (pc = "detect_after_read" /\ ~is_err(result))
        => IF InMagicTable(result.value)
           THEN /\ chip' = ChipOfMagic(result.value)
                /\ result'.kind = "ok"
                /\ result'.data = chip'
                /\ chip' = "Esp32C3" => spi_regs(chip').cmd = U32(96, 0, 32, 0)
                /\ pc' = "done"
           ELSE /\ result'.kind = "unknown_device"
                /\ result'.value = result.value
                /\ pc' = "done"
                /\ UNCHANGED <<chip, status_size>>

\* detect_chip accepts an answer whose value is no table magic.
DetectAcceptsUnknown ==
    /\ pc = "read_response"
    /\ pc' # pc
    /\ ~is_err(result')
    /\ ~InMagicTable(result'.value)

\* C15 as stated: one ReadReg of 0x40001000; a table magic records and
\* returns its chip; any other value fails with UnknownDevice and neither the
\* recorded chip nor the cached status width has changed.
C15_DetectChipKeepsWidth ==
    [][top = "detect_chip"
           => /\ DetectSendsOneReadReg
              /\ DetectLooksUp
              /\ DetectAcceptsUnknown => UNCHANGED <<chip, status_size>>]_vars

\* C15: one ReadReg of 0x40001000; a table magic records and returns its
\* chip; any other value fails with UnknownDevice and the recorded chip has
\* not changed.  The cached status width changes in detect_chip only when a
\* response is read while it is still 0, which sets it to 2 or 4, and when a
\* chip is recorded.
C15_DetectChip ==
    [][top = "detect_chip"
           => /\ DetectSendsOneReadReg
              /\ DetectLooksUp
              /\ chip' # chip
                     => (pc = "detect_after_read" /\ ~is_err(result)
                             /\ InMagicTable(result.value))
              /\ status_size' # status_size
                     => \/ /\ pc = "read_response"
                           /\ status_size = 0
                           /\ status_size' \in {2, 4}
                        \/ /\ pc = "detect_after_read"
                           /\ ~is_err(result)
                           /\ InMagicTable(result.value)
                           /\ status_size' = ChipStatusSize(is_rom_loader, chip')]_vars

\* detect_chip has failed with UnknownDevice on a Flasher whose status width
\* the answer has set.
C15_Witness ==
    /\ pc = "done"
    /\ top = "detect_chip"
    /\ result.kind = "unknown_device"
    /\ chip = "None"
    /\ status_size = 4
    /\ written = 1

\* The response data length the specification expects for an opcode.
ExpectedDataLen(c, rom_loader) ==
    IF c = SpiFlashMD5 THEN (IF rom_loader THEN 32 ELSE 16) ELSE 0

\* C16: a frame that read_response accepts as the response to the
\* outstanding command has a body length L with L minus the expected data
\* length (0, or 32 from ROM / 16 from the stub for SpiFlashMD5) equal to 2 or
\* 4; a frame with any other L is not returned as the command's result.
C16_AcceptedLengthFits ==
    (pc = "judged" /\ parsed.ret) =>
        from_le16(response, 3) - ExpectedDataLen(cmd_code, is_rom_loader) \in {2, 4}

\* C17: a ResponsePacket written with a 2-byte status trailer reads back as
\* the same (opcode, value, data, status, error), whatever the length of its
\* data.
C17_ResponseRoundTrip ==
    (pc = "parsed" /\ arg.reserved = <<>>) =>
        /\ parsed.ok
        /\ parsed.cmd_code = arg.cmd_code
        /\ parsed.value = arg.value
        /\ parsed.data = arg.data
        /\ parsed.status = arg.status
        /\ parsed.error = arg.error

\* 0xEF XORed with every byte of the payload.
PayloadChecksum(data) ==
    LET f[n \in 0..Len(data)] == IF n = 0 THEN 239 ELSE Xor(f[n - 1], data[n])
    IN f[Len(data)]

\* C18 (as stated): the checksum field of an encoded packet is, for
\* FlashData, MemData and FlashDeflData, 0xEF XORed with every payload byte in
\* the low byte and zero in the upper three bytes; for every other command it
\* is zero.
C18_ChecksumField ==
    pc = "encoded" =>
        Slice(packet, 5, 8) =
            (IF cmd \in DataCommands THEN <<PayloadChecksum(payload), 0, 0, 0>>
             ELSE <<0, 0, 0, 0>>)

\* C18 (amended): as stated for the data commands; for every other command
\* the field is zero in the packets of Flasher and Connection and 0xEF, the
\* XOR over the empty payload, followed by three zero bytes in the packets of
\* Protocol.
C18_ChecksumFieldByEngine ==
    pc = "encoded" =>
        Slice(packet, 5, 8) =
            (IF cmd \in DataCommands THEN <<PayloadChecksum(payload), 0, 0, 0>>
             ELSE IF impl = "Protocol" THEN <<239, 0, 0, 0>>
             ELSE <<0, 0, 0, 0>>)

\* Protocol has encoded a command without payload, and Flasher a data
\* command with one.
C18_Witness ==
    /\ pc = "encoded"
    /\ \/ impl = "Protocol" /\ cmd = "ReadReg" /\ packet[5] = 239
       \/ impl = "Flasher" /\ cmd = "FlashData" /\ payload = <<239, 255>>
                           /\ packet[5] = 255

\* The opcode <-> name table of the specification's section 6.
Section6Opcodes ==
    <<<<2, "FlashBegin">>, <<3, "FlashData">>, <<4, "FlashEnd">>,
      <<5, "MemBegin">>, <<6, "MemEnd">>, <<7, "MemData">>, <<8, "Sync">>,
      <<9, "WriteReg">>, <<10, "ReadReg">>, <<11, "SpiSetParams">>,
      <<13, "SpiAttach">>, <<15, "ChangeBaudRate">>, <<16, "FlashDeflBegin">>,
      <<17, "FlashDeflData">>, <<18, "FlashDeflEnd">>, <<19, "SpiFlashMD5">>,
      <<208, "EraseFlash">>, <<209, "EraseRegion">>, <<210, "ReadFlash">>,
      <<211, "RunUserCode">>>>

Section6Opcode(c) ==
    Section6Opcodes[CHOOSE i \in 1..Len(Section6Opcodes) :
                        Section6Opcodes[i][2] = c][1]

\* C19: an encoded packet has byte 0 = 0, byte 1 = the opcode section 6
\* gives the command, and in bytes 2..4 the number of bytes that follow the
\* 8-byte header, the data payload being the last of them; the Sync packet
\* is 44 bytes, its length field 36, its body 07 07 12 20 and 32 bytes 0x55.
C19_HeaderFields ==
    pc = "encoded" =>
        /\ Len(packet) >= 8
        /\ packet[1] = 0
        /\ packet[2] = Section6Opcode(cmd)
        /\ from_le16(packet, 3) = Len(packet) - 8
        /\ Len(payload) <= Len(packet) - 8
        /\ Slice(packet, Len(packet) - Len(payload) + 1, Len(packet)) = payload
        /\ cmd = "Sync" =>
               /\ Len(packet) = 44
               /\ from_le16(packet, 3) = 36
               /\ Slice(packet, 9, 12) = <<7, 7, 18, 32>>
               /\ \A k \in 13..44 : packet[k] = 85

\* A data command has been encoded with a payload of two bytes.
C19_Witness ==
    /\ pc = "encoded"
    /\ cmd = "MemData"
    /\ Len(payload) = 2
    /\ from_le16(packet, 3) = 18

\* C20: a SpiAttach is sent with an 8-byte body (pin-pack, then a zero word)
\* while the peer is the ROM loader and with a 4-byte body while it is the
\* stub; a reset brings the peer mode, and with it the 8-byte form, back.
C20_SpiAttachBody ==
    [][/\ (pc = "send_command" /\ cmd = "SpiAttach")
              => LET body == Slice(packet', 9, Len(packet'))
                 IN IF is_rom_loader
                    THEN Len(body) = 8 /\ Slice(body, 5, 8) = Zeros(4)
                    ELSE Len(body) = 4
       /\ pc = "reset" => is_rom_loader']_vars

\* An operand shape spi_command has to reject.
InvalidSpiShape(x) ==
    \/ x.command_len \notin {1, 2}
    \/ x.address_len > 4
    \/ x.dummy_cycles > 255
    \/ Len(x.data) > 64
    \/ x.output_len > 64

\* The step returns r to the caller of spi_command and nothing has been sent:
\* no frame written, no packet built, the session as it was.
RejectsWith(r) ==
    /\ result'.kind = r
    /\ pc' = Head(stack)
    /\ written = 0
    /\ UNCHANGED <<written, packet, attached, chip, status_size, is_rom_loader>>

\* C22: spi_command answers an invalid operand shape with InvalidSpiCommand,
\* and valid operands on a Flasher without a chip with MustSetChipFirst,
\* before anything is sent: no frame is written and the attached flag is as
\* it was.
C22_SpiCommandRejects ==
    [][pc = "spi_command"
           => /\ InvalidSpiShape(spi.x) => RejectsWith("invalid_spi_command")
              /\ (~InvalidSpiShape(spi.x) /\ chip = "None")
                     => RejectsWith("must_set_chip_first")]_vars

\* spi_command has rejected 65 bytes of data.
C22_Witness ==
    /\ pc = "done"
    /\ top = "spi_command"
    /\ result.kind = "invalid_spi_command"
    /\ chip = "Esp32"
    /\ written = 0
    /\ ~attached

\* C26: flash_end and flash_defl_end put the word 0 on the wire when reboot
\* is true and 1 when it is false; mem_end puts 0 when execute is true and 1
\* when it is false, followed by the entry point.
C26_EndFlagsInverted ==
    (/\ pc = "encoded"
     /\ impl \in {"Protocol", "Flasher"}
     /\ cmd \in {"FlashEnd", "FlashDeflEnd", "MemEnd"}) =>
        LET flag == IF arg.a[1] THEN 0 ELSE 1
            body == Slice(packet, 9, Len(packet))
        IN body = IF cmd = "MemEnd"
                  THEN to_le32(flag) \o to_le32(arg.a[2])
                  ELSE to_le32(flag)

\* mem_end(true, 0x40001000) has been encoded by the Flasher.
C26_Witness ==
    /\ pc = "encoded"
    /\ impl = "Flasher"
    /\ cmd = "MemEnd"
    /\ arg.a = <<TRUE, CHIP_MAGIC_REG>>
    /\ Slice(packet, 9, 12) = <<0, 0, 0, 0>>

\* The place of a register in spi_command's order of writes: user2, addr,
\* mosi_dlen, the data registers, miso_dlen, user1, user, cmd.
SpiWriteRank(regs, a) ==
    CASE a = regs.user2 -> 0
      [] a = regs.addr -> 1
      [] a = regs.mosi_dlen -> 2
      [] \E k \in 0..15 : a = RegW(regs, k) -> 3 + (a - regs.w0) \div 4
      [] a = regs.miso_dlen -> 19
      [] a = regs.user1 -> 20
      [] a = regs.user -> 21
      [] a = regs.cmd -> 22
      [] OTHER -> -1

\* The order of the history log of a spi_command on chip c with operands x.
SpiOrdered(c, x, log) ==
    LET regs == spi_regs(c)
        N == Len(log)
        Writes == {i \in 1..N : log[i].kind = "write"}
        Go == {i \in Writes : log[i].address = regs.cmd}
        Polls == {i \in 1..N : log[i].kind = "read" /\ log[i].address = regs.cmd}
        Outs == {i \in 1..N : log[i].kind = "read" /\ log[i].address # regs.cmd}
        Answers == {i \in 1..N : log[i].kind = "polled"}
        Wrote(a) == \E i \in Writes : log[i].address = a
    IN /\ \A i \in Writes :
              /\ SpiWriteRank(regs, log[i].address) >= 0
              /\ log[i].address # regs.user2 =>
                     \E j \in Writes : j < i /\ log[j].address = regs.user2
              /\ \A j \in Writes :
                     j < i => SpiWriteRank(regs, log[j].address)
                                  < SpiWriteRank(regs, log[i].address)
       /\ \A i \in Go :
              /\ log[i].value = SPI_USR
              /\ \A j \in Writes : j <= i
              /\ \E j, k \in Writes :
                     /\ j < k /\ k < i
                     /\ log[j].address = regs.user1
                     /\ log[k].address = regs.user
              /\ Wrote(regs.addr) <=> x.address_len > 0
              /\ Cardinality({j \in Writes : SpiWriteRank(regs, log[j].address) \in 3..18})
                     = (Len(x.data) + 3) \div 4
              /\ c # "Esp8266" =>
                     /\ Wrote(regs.mosi_dlen) <=> x.data # <<>>
                     /\ Wrote(regs.miso_dlen) <=> x.output_len > 0
       /\ \A i \in Polls : \E j \in Go : j < i
       /\ \A i \in Outs :
              /\ \E k \in 0..15 : log[i].address = RegW(regs, k)
              /\ \E j \in Answers :
                     /\ j < i
                     /\ log[j].value = 0
                     /\ \A k \in Answers : k <= j

\* C30: in every SPI transaction of spi_command the first register written
\* is user2; addr, mosi_dlen, the data registers from w0 on and miso_dlen
\* follow as far as they apply, then user1, then user, and the write of
\* 1 << 18 to cmd is the last register write; cmd is polled only after that
\* write, and data registers are read back only after a poll has returned a
\* value with bit 18 clear.
C30_SpiRegisterOrder ==
    (spi.running /\ chip # "None") => SpiOrdered(chip, spi.x, spi.log)

\* A page program of five bytes on the ESP32 has polled twice, the second
\* poll finding bit 18 clear.
C30_Witness ==
    /\ pc = "spi_read"
    /\ chip = "Esp32"
    /\ Len(spi.x.data) = 5
    /\ Len(spi.log) >= 10
    /\ spi.polls = 1

\* The hex digits, by value.
HexDigitsLower == <<48, 49, 50, 51, 52, 53, 54, 55, 56, 57, 97, 98, 99, 100, 101, 102>>
HexDigitsUpper == <<48, 49, 50, 51, 52, 53, 54, 55, 56, 57, 65, 66, 67, 68, 69, 70>>

IsHexDigit(x) == \E n \in 1..16 : x \in {HexDigitsLower[n], HexDigitsUpper[n]}

Nibble(x) == CHOOSE n \in 0..15 : x \in {HexDigitsLower[n + 1], HexDigitsUpper[n + 1]}

InvalidResponse(r) == r.kind = "command" /\ r.err = "InvalidResponse"

\* C23: spi_flash_md5 on a ROM loader takes exactly 32 ASCII hex digits and
\* returns the 16 bytes they spell, on a stub exactly 16 bytes which it
\* returns verbatim; every other data field is an invalid response; and the
\* ROM decoding of the hex form of a digest, in upper or lower case, is the
\* digest itself, which is what the stub path returns for it.
C23_Md5ByPeerMode ==
    pc = "md5_decoded" =>
        LET d == arg.data
        IN /\ is_rom_loader =>
                  IF Len(d) = 32 /\ \A i \in 1..32 : IsHexDigit(d[i])
                  THEN /\ result.kind = "ok"
                       /\ Len(result.data) = 16
                       /\ \A i \in 1..16 :
                              result.data[i] = 16 * Nibble(d[2 * i - 1]) + Nibble(d[2 * i])
                       /\ arg.digest # <<>> =>
                              result.data = Md5Decode(OkValue(0, arg.digest, <<>>), FALSE).data
                  ELSE InvalidResponse(result)
           /\ ~is_rom_loader =>
                  IF Len(d) = 16
                  THEN result.kind = "ok" /\ result.data = d
                  ELSE InvalidResponse(result)

\* The ROM path has decoded a digest given in upper-case hex digits.
C23_Witness ==
    /\ pc = "md5_decoded"
    /\ is_rom_loader
    /\ arg.digest = Md5Raw
    /\ Len(arg.data) = 32
    /\ arg.data[19] = 65
    /\ result.kind = "ok"
    /\ result.data = Md5Raw

\* C27: an image segment is written as its load address (u32, little-endian),
\* the number of its data bytes (u32, little-endian) and the data bytes, and
\* reading the bytes written gives the same segment back.
C27_SegmentRoundTrip ==
    /\ pc \in {"segment_written", "segment_read"} =>
           LET n == Len(arg.data)
           IN /\ Len(response) = 8 + n + Len(payload)
              /\ Slice(response, 1, 4)
                     = <<arg.load_addr % 256, (arg.load_addr \div 256) % 256,
                         (arg.load_addr \div 65536) % 256,
                         (arg.load_addr \div 16777216) % 256>>
              /\ Slice(response, 5, 8) = <<n, 0, 0, 0>>
              /\ Slice(response, 9, 8 + n) = arg.data
              /\ arg = EspImageSegment(U32(170, 187, 204, 221), <<0, 1, 2, 3, 4>>) =>
                     Slice(response, 1, 13)
                         = <<221, 204, 187, 170, 5, 0, 0, 0, 0, 1, 2, 3, 4>>
    /\ pc = "segment_read" =>
           /\ parsed.ok
           /\ parsed.segment.load_addr = arg.load_addr
           /\ parsed.segment.data = arg.data

\* The segment of the crate's own test has been written and read back.
C27_Witness ==
    /\ pc = "segment_read"
    /\ arg.load_addr = U32(170, 187, 204, 221)
    /\ arg.data = <<0, 1, 2, 3, 4>>
    /\ Len(response) = 13
    /\ parsed.ok

\* The old_rate word of a ChangeBaudRate packet follows the peer-mode flag:
\* 0 when it says ROM loader, the port's current baud rate when it says stub.
OldRateFollowsFlag ==
    (pc = "send_command" /\ cmd = "ChangeBaudRate" /\ written' = written + 1)
        => /\ Len(packet') = 16
           /\ from_le32(packet', 9) = arg
           /\ from_le32(packet', 13) = IF is_rom_loader THEN 0 ELSE serial.baud_rate

C21_OldRateFollowsFlag == [][OldRateFollowsFlag]_vars

\* C21: a ChangeBaudRate packet carries old_rate = 0 while the peer is the
\* ROM loader and the port's current baud rate while it is the stub, after
\* any sequence of baud-rate changes and resets: the word follows the
\* peer-mode flag, and a reset, which puts the peer back into the ROM loader,
\* puts the flag back to ROM.
C21_OldRateByPeerMode ==
    [][/\ OldRateFollowsFlag
       /\ pc = "reset" => is_rom_loader']_vars

\* A prefix of a sequence.
IsPrefix(a, b) == Len(a) <= Len(b) /\ a = SubSeq(b, 1, Len(a))

\* The order section 4.5 gives the reset sequence.
ResetLineOrder(enter_bootloader) ==
    <<PortCall("rts", 1), PortCall("dtr", 0), PortCall("sleep", 100),
      PortCall("clear", 0), PortCall("dtr", IF enter_bootloader THEN 1 ELSE 0),
      PortCall("rts", 0), PortCall("sleep", 500), PortCall("dtr", 0)>>

\* The calls of a reset are in order: from the first line change on they
\* are the reset sequence, as far as the reset got; the Reset event and the
\* discarding of the buffer come before the first line change; and a reset
\* that succeeded made the whole sequence, which leaves RTS and DTR false.
ResetInOrder(calls, enter_bootloader, ok) ==
    LET Lines == {i \in 1..Len(calls) : calls[i].op \in {"rts", "dtr"}}
        first == IF Lines = {} THEN Len(calls) + 1
                 ELSE CHOOSE i \in Lines : \A j \in Lines : i <= j
        tail == SubSeq(calls, first, Len(calls))
        Last(op) == CHOOSE i \in Lines :
                        /\ calls[i].op = op
                        /\ \A j \in Lines : calls[j].op = op => j <= i
    IN /\ IsPrefix(tail, ResetLineOrder(enter_bootloader))
       /\ Lines # {} =>
              /\ \E i \in 1..(first - 1) : calls[i].op = "reset_event"
              /\ \E i \in 1..(first - 1) : calls[i].op = "discard"
       /\ ok => /\ tail = ResetLineOrder(enter_bootloader)
                /\ calls[Last("rts")].v = 0
                /\ calls[Last("dtr")].v = 0

\* C28: reset(enter_bootloader) of Protocol and of Flasher drives the lines
\* in the order RTS := true, DTR := false, wait 100 ms, flush the receive
\* buffer, DTR := enter_bootloader, RTS := false, wait 500 ms, DTR := false;
\* the Reset event is emitted and the buffered bytes are discarded before
\* the first line change; after a successful reset RTS and DTR are false.
C28_ResetSequence ==
    (pc = "done" /\ top = "reset" /\ impl \in {"Protocol", "Flasher"}) =>
        ResetInOrder(serial.calls, arg, result.kind = "ok")

\* Protocol::reset(true) has succeeded.
C28_Witness ==
    /\ pc = "done"
    /\ top = "reset"
    /\ impl = "Protocol"
    /\ arg = TRUE
    /\ result.kind = "ok"
    /\ Len(serial.calls) = 11

\* C29: change_baud_rate sends ChangeBaudRate and receives its successful
\* response, then discards the locally buffered bytes, then flushes the
\* port, then sets the new rate on the local port; the port's rate changes
\* in no other step, so it is unchanged when the command fails or times out.
C29_ChangeBaudRateOrder ==
    [][/\ (pc = "op_after_send" /\ cmd = "ChangeBaudRate") =>
              LET calls == serial'.calls
                  Flushed(i) == calls[i].op \in {"flush", "clear"}
              IN IF is_err(result)
                 THEN serial' = serial
                 ELSE /\ written = 1
                      /\ \A i \in 1..Len(calls) :
                             /\ calls[i].op = "set_baud_rate" =>
                                    /\ calls[i].v = arg
                                    /\ \E j \in 1..(i - 1) :
                                           /\ Flushed(j)
                                           /\ \E k \in 1..(j - 1) :
                                                  calls[k].op = "discard"
                             /\ Flushed(i) =>
                                    \A j \in 1..(i - 1) : calls[j].op # "set_baud_rate"
                      /\ result'.kind = "ok" => serial'.baud_rate = arg
       /\ serial'.baud_rate # serial.baud_rate =>
              (pc = "op_after_send" /\ cmd = "ChangeBaudRate" /\ ~is_err(result))]_vars

\* The kinds of event observer o has been notified of.
NotifiedOf(o) == {x[2] : x \in {y \in bus.notified : y[1] = o}}

\* C24: every observer registered through add_observer is notified of every
\* event the session produces, the SerialRead events of the serial port
\* among them.
C24_ObserversSeeEveryEvent ==
    \A k \in 1..Len(bus.engine) : NotifiedOf(bus.engine[k]) = bus.emitted

\* With the Flasher, whose port events go through the engine's own list,
\* every registered observer has been notified of every event.
FlasherObserversSeeEveryEvent ==
    impl = "Flasher" => \A k \in 1..Len(bus.engine) : NotifiedOf(bus.engine[k]) = bus.emitted

\* C25: SLIP framing round-trips: the frame send_packet writes starts and
\* ends with 0xC0, and read_packet yields exactly the payload as one frame,
\* for every payload, the empty one and those with 0xC0 and 0xDB among them,
\* also when the frame is split over serial reads or follows stray 0xC0 bytes.
C25_SlipRoundTrip ==
    pc = "slip_read" =>
        /\ Head(packet) = SLIP_END
        /\ packet[Len(packet)] = SLIP_END
        /\ parsed = Packet("ok", payload)

\* A non-empty payload is read back by a decoder that ignores the delimiters
\* before a frame, whatever the stray bytes and the cuts.
SlipRoundTripNonEmpty ==
    (pc = "slip_read" /\ arg.empty_frames = "ignored" /\ payload # <<>>)
        => parsed = Packet("ok", payload)

\* Any payload is read back by a decoder that yields empty frames when no
\* stray delimiter precedes the frame.
SlipRoundTripNoStray ==
    (pc = "slip_read" /\ arg.empty_frames = "yielded" /\ arg.stray = 0)
        => parsed = Packet("ok", payload)

\* Whatever the decoder does with a delimiter that closes no data byte, the
\* empty frame, or a frame after one stray delimiter, is not read back.
SlipNoDecoderReadsAll ==
    pc = "slip_read" =>
        \A e \in EmptyFrames : \E n \in 0..1, p \in {<<>>, <<1>>} :
            ReadPacket(impl, e, <<[k \in 1..n |-> SLIP_END] \o SlipEncode(p)>>)
                # Packet("ok", p)

\* Some observer has been notified of an event of the kind.
Notified(kind) == \E x \in bus.notified : x[2] = kind

\* C31: a SerialWrite event is emitted once per command frame and only for
\* a frame completely written: while the call in progress has written no
\* frame, when the serial write failed among others, no observer has been
\* notified of a SerialWrite.
C31_SerialWriteOnlyWritten ==
    (top # "none" /\ written = 0) => ~Notified("SerialWrite")

\* The Flasher, which traces SerialWrite after write_all has returned, has
\* notified nobody of a SerialWrite while no frame is written.
FlasherSerialWriteOnlyWritten ==
    (impl = "Flasher" /\ top # "none" /\ written = 0) => ~Notified("SerialWrite")

\* send_command has returned to a single-command operation whose session has
\* observers.
SendReturned == pc = "op_after_send" /\ bus.engine # <<>>

\* C32: whenever send-command returns a timeout error, a CommandTimeout event
\* has been emitted after the command's Command event and before the return;
\* none is emitted for a command that completed with a response or with an
\* error that is no timeout.
C32_TimeoutEventIffTimeout ==
    SendReturned =>
        /\ is_timeout(result) <=> Notified("CommandTimeout")
        /\ is_timeout(result) => Notified("Command")

\* On a port whose writes fail only with errors that are no timeouts, the
\* CommandTimeout event goes with the timeout error.
TimeoutEventIffReadTimeout ==
    (SendReturned /\ ~serial.write_stalls) =>
        /\ is_timeout(result) <=> Notified("CommandTimeout")
        /\ is_timeout(result) => Notified("Command")

\* read_response is in its loop, has dropped every frame read so far, the
\* last of them of the kind given, and the session has observers.
Dropped(kinds) == pc = "read_response" /\ bus.engine # <<>> /\ lastRead \in kinds

\* C33: a frame that decodes as a well-formed response but echoes another
\* opcode than the outstanding command's is reported with an InvalidResponse
\* event, not a Response event, and dropped; so is a frame that does not
\* decode.  While every frame read was dropped no Response event is emitted.
C33_DroppedMeansInvalidResponse ==
    Dropped({"chatter", "garbage"}) =>
        Notified("InvalidResponse") /\ ~Notified("Response")

\* A frame that does not decode is reported with an InvalidResponse event.
UndecodedMeansInvalidResponse == Dropped({"garbage"}) => Notified("InvalidResponse")

\* C34: the observer list may be changed while a notification is running: an
\* add_observer or remove_observer issued from an observer's notify during
\* send_event completes without a fault.
C34_ListChangeDuringNotify == bus.fault # "already_borrowed"

\* C35: after any sequence of add_observer, remove_observer and emissions,
\* collect returns exactly the events emitted while the collector's observer
\* was registered, one entry per event and in emission order, and completes
\* without a fault whether or not the observer is still registered.
C35_CollectReturnsEvents ==
    /\ bus.fault # "collect_failed"
    /\ bus.collected.events = bus.collected.due

\* A collector whose observer was registered at most once at a time and is
\* registered no more returns the events emitted while it was registered.
CollectAfterRemoval ==
    (\A k \in 1..Len(bus.collected.events) :
        \A j \in 1..Len(bus.collected.events) :
            bus.collected.events[k] = bus.collected.events[j] => k = j)
        => bus.collected.events = bus.collected.due

\* num_packets packets of packet_size bytes cover total_size and one packet
\* fewer does not: n * p >= t > (n - 1) * p, without overflow.
Covers(b) ==
    LET all == WideTimes(b.packet_size[2], b.num_packets)
        fewer == WideTimes(b.packet_size[2], WideDec(b.num_packets).v)
    IN /\ b.packet_size[1] = 0
       /\ b.num_packets # <<0, 0>>
       /\ ~all.overflow /\ ~WideLess(all.v, b.total_size)
       /\ ~fewer.overflow /\ WideLess(fewer.v, b.total_size)

\* C36: for every 32-bit total_size the MemBegin built has packet_size =
\* min(total_size, 0x4000) against the ROM loader and min(total_size, 0x1800)
\* against the stub, and num_packets = ceil(total_size / packet_size); the
\* computation neither divides by zero nor overflows.
C36_MemBeginPackets ==
    (pc = "begin_built" /\ cmd = "MemBegin") =>
        /\ parsed.kind = "ok"
        /\ parsed.packet_size =
               WideMin(arg.total_size, Wide(IF is_rom_loader THEN 16384 ELSE 6144))
        /\ arg.total_size # <<0, 0>> => Covers(parsed)

\* Against the ROM loader, for a total size that is not zero and whose sum
\* with the packet size stays below 2^32, the packets are as claimed.
MemBeginRomInRange ==
    (/\ pc = "begin_built"
     /\ is_rom_loader
     /\ arg.total_size # <<0, 0>>
     /\ ~WideAdd(arg.total_size, Wide(MEM_PACKET)).overflow) =>
        /\ parsed.kind = "ok"
        /\ parsed.packet_size = WideMin(arg.total_size, Wide(MEM_PACKET))
        /\ Covers(parsed)

\* C37: the response returned for a command was produced by the target in
\* reply to that very command: a late response to an earlier command of the
\* same opcode that timed out is never returned as the result of a later one.
C37_ResponseAnswersItsCommand ==
    (pc = "send_after_read" /\ result.kind \in {"ok", "command"}) => ~serial.stale

\* spi_command is running its poll loop / has returned to its caller.
SpiPolling == top = "spi_command" /\ pc = "spi_poll"
SpiReturned == top # "spi_command" \/ pc = "done"

\* Every command spi_command issues is answered: a command that is sent
\* gets its response, and no command of spi_command ends in an error.
SpiAnswered ==
    /\ [](top = "spi_command" => ~is_err(result))
    /\ (top = "spi_command" /\ pc = "send_command")
           ~> (top = "spi_command" /\ pc = "send_after_read")

\* C38: spi_command terminates: provided every register read and write it
\* issues is answered, it returns after finitely many polls of the cmd
\* register, also when the target keeps returning a value with bit 18 set.
C38_SpiCommandTerminates == SpiAnswered => (SpiPolling ~> SpiReturned)

\* A poll has been answered with bit 18 set.
SpiBusy == pc = "spi_after_poll" /\ ~is_err(result) /\ ~SpiIdle(result.value)

\* With a target whose cmd register does not show bit 18 for ever, the loop
\* ends and spi_command returns.
SpiTerminatesWhenIdle ==
    (SpiAnswered /\ <>[]~SpiBusy) => (SpiPolling ~> SpiReturned)

\* A frame f read while cmd_code sent is outstanding passes the validity
\* test of Flasher::read_response and is not refused with MustSetChipFirst:
\* its status and error bytes are extracted.
ReachesStatus(f, sent, rom_loader, ss) ==
    LET expected == response_data_len_from_code(sent, rom_loader)
    IN ~FlasherInvalid(f, expected, ss) /\ ~(ss = 0 /\ expected = USIZE_MAX)

\* The width the status of such a frame is extracted with lies in {2, 4},
\* is the cached one when there is one and the length field minus the
\* expected data length otherwise, and the frame has 8 bytes and the status
\* trailer at least.
StatusInsideFrame(f, sent, rom_loader, ss) ==
    LET expected == response_data_len_from_code(sent, rom_loader)
        width == FlasherProcess(f, sent, rom_loader, ss).ss
    IN /\ width \in {2, 4}
       /\ width = IF ss = 0 THEN from_le16(f, 3) - expected ELSE ss
       /\ Len(f) >= 8 + width

\* The cached width is 0, 2 or 4; while a response is awaited, whatever frame
\* the target delivers has its status inside the frame.
StatusWidthInv ==
    /\ status_size \in {0, 2, 4}
    /\ chip # "None" => status_size # 0
    /\ (impl = "Flasher" /\ pc = "read_response") =>
           \A f \in TargetFrames(cmd_code) :
               ReachesStatus(f, cmd_code, is_rom_loader, status_size)
                   => StatusInsideFrame(f, cmd_code, is_rom_loader, status_size)

\* The cached width never returns to 0, is not 0 once a response has been
\* accepted, and changes only by a calibration from 0 or by set_chip.
StatusWidthStep ==
    /\ status_size # 0 => status_size' # 0
    /\ (impl = "Flasher" /\ pc = "read_response" /\ pc' # pc
            /\ result'.kind \in {"ok", "command"}) => status_size' # 0
    /\ status_size' # status_size =>
           \/ /\ pc = "read_response"
              /\ status_size = 0
              /\ \E f \in TargetFrames(cmd_code) :
                    /\ ReachesStatus(f, cmd_code, is_rom_loader, 0)
                    /\ status_size' = from_le16(f, 3)
                           - response_data_len_from_code(cmd_code, is_rom_loader)
           \/ /\ chip' # "None"
              /\ status_size' = ChipStatusSize(is_rom_loader, chip')

LegacyRead(f) ==
    /\ impl = "Connection"
    /\ pc = "read_response"
    /\ \/ pc' # pc /\ result'.frame = response \o f
       \/ pc' = pc /\ response' = response \o f

\* The result carries the value and the data (or the error) of the response f.
ResultOf(r, f) ==
    LET own == ConnectionProcess(f, cmd_code, is_rom_loader).res
    IN r.kind = own.kind /\ r.value = own.value /\ r.data = own.data /\ r.err = own.err

\* C40: in the legacy Connection::read_response, discarding a frame leaves
\* no trace in the parsing of later frames: a well-formed response echoing
\* the outstanding opcode that arrives within the deadline after any number
\* of discarded frames is returned with its own value and data.
C40_DiscardLeavesNoTrace ==
    [][\A f \in Replies(cmd_code) :
           (LegacyRead(f) /\ ConnectionProcess(f, cmd_code, is_rom_loader).ret)
               => (pc' # pc /\ ResultOf(result', f))]_vars

\* A response that is the first frame of its read_response is returned with
\* its own value and data.
LegacyFirstFrameReturned ==
    [][\A f \in Replies(cmd_code) :
           (LegacyRead(f) /\ response = <<>>
                /\ ConnectionProcess(f, cmd_code, is_rom_loader).ret)
               => (pc' # pc /\ ResultOf(result', f))]_vars

====
